---- MODULE Spec2Model ----
(***************************************************************************)
(* Model of the SDS field-extraction pipeline                              *)
(* (ocr_service/sds_parser_new: sds_extractor.py and modules/*.py).        *)
(*                                                                         *)
(* A text is a sequence of one-character strings.  The regular expressions *)
(* of the source are written as regex terms (Lit, Set, Cat, Alt, Rep ...)  *)
(* and matched by M, which returns the end positions of the matches that   *)
(* start at a position in the order in which Python's backtracking matcher *)
(* tries them, so that greedy/lazy choices and the first match are those   *)
(* of the source.                                                          *)
(***************************************************************************)
EXTENDS Integers, Sequences, FiniteSets, TLC

(***************************************************************************)
(* Characters                                                              *)
(***************************************************************************)
UpperSeq == <<"A","B","C","D","E","F","G","H","I","J","K","L","M","N","O","P","Q","R","S","T","U","V","W","X","Y","Z">>
LowerSeq == <<"a","b","c","d","e","f","g","h","i","j","k","l","m","n","o","p","q","r","s","t","u","v","w","x","y","z">>
DigitSeq == <<"0","1","2","3","4","5","6","7","8","9">>

\* a local variable of the source: F applied to the value assigned to it
With(v, F(_)) == F(v)

Range(q) == {q[k] : k \in 1..Len(q)}

UpperSet == Range(UpperSeq)
LowerSet == Range(LowerSeq)
DigitSet == Range(DigitSeq)
AlphaSet == UpperSet \cup LowerSet
WordSet  == AlphaSet \cup DigitSet \cup {"_"}
SpaceSet == {" ", "\t", "\n"}

LowerOf == [c \in UpperSet |-> LowerSeq[CHOOSE k \in 1..26 : UpperSeq[k] = c]]
UpperOf == [c \in LowerSet |-> UpperSeq[CHOOSE k \in 1..26 : LowerSeq[k] = c]]

\* str.lower() on one character
Lower(c) == IF c \in UpperSet THEN LowerOf[c] ELSE c
Upper(c) == IF c \in LowerSet THEN UpperOf[c] ELSE c

\* str.lower()
LowerStr(s) == [k \in 1..Len(s) |-> Lower(s[k])]

\* s[a:b] of Python (0-based, end exclusive)
Slice(s, a, b) == SubSeq(s, a + 1, b)

Min(a, b) == IF a < b THEN a ELSE b
Max(a, b) == IF a > b THEN a ELSE b

(***************************************************************************)
(* Regex terms                                                             *)
(***************************************************************************)
Lit(v)          == [t |-> "lit", v |-> v]
Set(cs)         == [t |-> "set", cs |-> cs, neg |-> FALSE]
NSet(cs)        == [t |-> "set", cs |-> cs, neg |-> TRUE]
Cat(rs)         == [t |-> "cat", rs |-> rs]
Alt(rs)         == [t |-> "alt", rs |-> rs]
Rep(r, lo, hi)  == [t |-> "rep", r |-> r, lo |-> lo, hi |-> hi, lazy |-> FALSE]
RepL(r, lo, hi) == [t |-> "rep", r |-> r, lo |-> lo, hi |-> hi, lazy |-> TRUE]
Bol             == [t |-> "bol"]
Eol             == [t |-> "eol"]
WordB           == [t |-> "wb"]
Ahead(r)        == [t |-> "la", r |-> r, neg |-> FALSE]
NotAhead(r)     == [t |-> "la", r |-> r, neg |-> TRUE]

\* no upper limit of a repetition
Unbounded == 100000

Opt(r)   == Rep(r, 0, 1)
Star(r)  == Rep(r, 0, Unbounded)
Plus(r)  == Rep(r, 1, Unbounded)
StarL(r) == RepL(r, 0, Unbounded)
PlusL(r) == RepL(r, 1, Unbounded)
Empty    == Cat(<<>>)

Dot   == NSet({"\n"})          \* .
DotNL == NSet({})              \* . under re.DOTALL
Sp    == Set(SpaceSet)         \* \s
Dig   == Set(DigitSet)         \* \d
Wd    == Set(WordSet)          \* \w
Alpha == Set(AlphaSet)         \* [A-Za-z]
Sp0   == Star(Sp)              \* \s*
Sp1   == Plus(Sp)              \* \s+

\* flags
CS  == [ci |-> FALSE, ml |-> FALSE]     \* no flags
CI  == [ci |-> TRUE,  ml |-> FALSE]     \* re.IGNORECASE
CIM == [ci |-> TRUE,  ml |-> TRUE]      \* re.IGNORECASE | re.MULTILINE


(***************************************************************************)
(* The matcher                                                             *)
(***************************************************************************)
CharIn(c, r, f) ==
  IF f.ci THEN (c \in r.cs \/ Lower(c) \in r.cs \/ Upper(c) \in r.cs) # r.neg
  ELSE (c \in r.cs) # r.neg

LitAt(v, s, i, f) ==
  /\ i + Len(v) <= Len(s)
  /\ \A k \in 1..Len(v) : IF f.ci THEN Lower(s[i + k]) = Lower(v[k]) ELSE s[i + k] = v[k]

IsWordAt(s, k) == k >= 1 /\ k <= Len(s) /\ s[k] \in WordSet

\* the elements of q followed by those of p that q does not hold
AppendNew(q, p) ==
  IF p = <<>> THEN q
  ELSE IF q = <<>> THEN p
  ELSE q \o SelectSeq(p, LAMBDA e : \A k \in 1..Len(q) : q[k] # e)

\* length of the run of characters of the set r from position i, at most hi
RunLen(r, s, i, f, hi) ==
  IF hi <= 0 \/ i >= Len(s) THEN 0
  ELSE CHOOSE k \in 0..Min(hi, Len(s) - i) :
         /\ k = Min(hi, Len(s) - i) \/ ~CharIn(s[i + k + 1], r, f)
         /\ \A j \in 1..k : CharIn(s[i + j], r, f)

\* <<1, ..., n>>
Indices(n) == [k \in 1..n |-> k]

\* <<a, a-1, ..., b>> (or <<>>)
Down(a, b) == [k \in 1..(a - b + 1) |-> a + 1 - k]
Up(a, b)   == [k \in 1..(b - a + 1) |-> a - 1 + k]

\* the ends of a repetition r of a single character, whose longest run from i is n
RunEnds(r, i, n) ==
  IF n < r.lo THEN <<>>
  ELSE IF r.lazy THEN Up(i + r.lo, i + n) ELSE Down(i + n, i + r.lo)

\* the first non-empty element of qq, or <<>>
NonEmpty(q) == q # <<>>
First(qq) == Head(SelectSeq(qq, NonEmpty) \o << <<>> >>)

\* where position p first occurs in the sequences qq: <<sequence, index>>
Holds(q, p) == \E j \in 1..Len(q) : q[j] = p
FirstAt(qq, p) ==
  With(CHOOSE k \in 1..Len(qq) : Holds(qq[k], p) /\ \A m \in 1..(k - 1) : ~Holds(qq[m], p),
       LAMBDA k : <<k, CHOOSE j \in 1..Len(qq[k]) : qq[k][j] = p>>)
Earlier(x, y) == x[1] < y[1] \/ (x[1] = y[1] /\ x[2] < y[2])

\* the positions (0..n) of the non-empty sequences ne[1], ne[2], ... in that
\* order, each once
Merge(ne, n) ==
  IF ne = <<>> THEN <<>>
  ELSE IF Len(ne) = 1 THEN ne[1]
  ELSE SortSeq(SelectSeq(Up(0, n), LAMBDA p : \E k \in 1..Len(ne) : Holds(ne[k], p)),
               LAMBDA a, b : Earlier(FirstAt(ne, a), FirstAt(ne, b)))

\* pre (grp) post: a pattern around its capturing group
Cap(pre, grp, post) == [t |-> "cap", pre |-> pre, grp |-> grp, post |-> post]
\* work items of the matcher: a Cap with the group starting at one of `as`
CapA(r, as) == [t |-> "capa", grp |-> r.grp, post |-> r.post, as |-> as]
\* ... with the group from a to one of bs
CapB(r, a, bs) == [t |-> "capb", post |-> r.post, a |-> a, bs |-> bs]
\* r, a Cap, tried at each start from the current one to hi
Scan(r, hi) == [t |-> "search", r |-> r, hi |-> hi]

\* the match that starts at st with group 1 from a to b, if what follows the
\* group can end somewhere (es)
Hit(st, a, b, es) == IF es = <<>> THEN <<>> ELSE <<st, a, b, es[1]>>
\* the match of a pattern that is all group: from st to the first of the ends es
Span(st, es) == IF es = <<>> THEN <<>> ELSE <<st, st, es[1], es[1]>>

\* M(r, s, i, f): where a match of r that starts after i characters of s can
\* end, in the matcher's order of preference.  For a Cap (and a Scan of one)
\* the result is the first match as <<start, group start, group end, end>>,
\* or <<>>.
RECURSIVE M(_, _, _, _)

\* the ends of r from each position of `from` in turn
Ends(r, s, from, f) ==
  IF Len(from) = 1 THEN M(r, s, from[1], f)
  ELSE Merge(SelectSeq([n \in 1..Len(from) |-> M(r, s, from[n], f)], NonEmpty), Len(s))

\* the ends of the terms rs[k], rs[k+1], ... in a row from the positions `from`
RECURSIVE Row(_, _, _, _, _)
Row(rs, k, s, from, f) ==
  IF from = <<>> \/ k > Len(rs) THEN from ELSE Row(rs, k + 1, s, Ends(rs[k], s, from, f), f)

M(r, s, i, f) ==
  CASE r.t = "lit" -> IF LitAt(r.v, s, i, f) THEN <<i + Len(r.v)>> ELSE <<>>
    [] r.t = "set" -> IF i < Len(s) /\ CharIn(s[i + 1], r, f) THEN <<i + 1>> ELSE <<>>
    [] r.t = "bol" -> IF i = 0 \/ (f.ml /\ s[i] = "\n") THEN <<i>> ELSE <<>>
    [] r.t = "eol" -> IF i = Len(s) \/ (i = Len(s) - 1 /\ s[i + 1] = "\n")
                         \/ (f.ml /\ i < Len(s) /\ s[i + 1] = "\n") THEN <<i>> ELSE <<>>
    [] r.t = "wb"  -> IF IsWordAt(s, i) # IsWordAt(s, i + 1) THEN <<i>> ELSE <<>>
    [] r.t = "la"  -> IF (M(r.r, s, i, f) # <<>>) # r.neg THEN <<i>> ELSE <<>>
    [] r.t = "cat" -> Row(r.rs, 1, s, <<i>>, f)
    [] r.t = "alt" ->
         Merge(SelectSeq([n \in 1..Len(r.rs) |-> M(r.rs[n], s, i, f)], NonEmpty), Len(s))
    [] r.t = "rep" ->
         IF r.r.t = "set" THEN RunEnds(r, i, RunLen(r.r, s, i, f, r.hi))
         ELSE IF r.hi = 0 THEN <<i>>
         ELSE IF r.lazy
         THEN AppendNew(IF r.lo <= 0 THEN <<i>> ELSE <<>>,
                        Ends([r EXCEPT !.lo = Max(r.lo - 1, 0), !.hi = r.hi - 1], s,
                             SelectSeq(M(r.r, s, i, f), LAMBDA e : e > i), f))
         ELSE AppendNew(Ends([r EXCEPT !.lo = Max(r.lo - 1, 0), !.hi = r.hi - 1], s,
                             SelectSeq(M(r.r, s, i, f), LAMBDA e : e > i), f),
                        IF r.lo <= 0 THEN <<i>> ELSE <<>>)
    [] r.t = "cap" ->
         IF r.pre = Empty /\ r.post = Empty THEN Span(i, M(r.grp, s, i, f))
         ELSE M(CapA(r, M(r.pre, s, i, f)), s, i, f)
    [] r.t = "capa" ->
         First([k \in 1..Len(r.as) |->
                  M(CapB(r, r.as[k], M(r.grp, s, r.as[k], f)), s, i, f)])
    [] r.t = "capb" ->
         First([k \in 1..Len(r.bs) |-> Hit(i, r.a, r.bs[k], M(r.post, s, r.bs[k], f))])
    [] r.t = "search" ->
         First([k \in 1..(r.hi - i + 1) |-> M(r.r, s, i + k - 1, f)])

NoMatch == [ok |-> FALSE]

\* the match object of a result of M for a Cap
Got(q) ==
  IF q = <<>> THEN NoMatch
  ELSE [ok |-> TRUE, st |-> q[1], g1 |-> q[2], g2 |-> q[3], en |-> q[4]]

\* a pattern that starts with ^ and is not compiled with re.MULTILINE matches
\* at the start of the text or nowhere
StartsBol(r) == r.t = "bol" \/ (r.t = "cat" /\ r.rs # <<>> /\ r.rs[1].t = "bol")
LastStart(pre, grp, s, f) ==
  IF s # <<>> /\ ~f.ml /\ (StartsBol(pre) \/ (pre = Empty /\ StartsBol(grp))) THEN 0 ELSE Len(s)

\* pattern.search(s, st): the leftmost match that starts at st or later
SearchFrom(pre, grp, post, s, f, st) ==
  Got(M(Scan(Cap(pre, grp, post), LastStart(pre, grp, s, f)), s, st, f))

\* re.search(pre(grp)post, s)
SearchG(pre, grp, post, s, f) == SearchFrom(pre, grp, post, s, f, 0)
\* re.match(pre(grp)post, s)
MatchG(pre, grp, post, s, f) == Got(M(Cap(pre, grp, post), s, 0, f))

\* re.search(r, s), re.match(r, s), re.fullmatch(r, s) as booleans
Search(r, s, f)    == M(Scan(Cap(Empty, r, Empty), LastStart(Empty, r, s, f)), s, 0, f) # <<>>
Match(r, s, f)     == M(r, s, 0, f) # <<>>
FullMatch(r, s, f) == Len(s) \in Range(M(r, s, 0, f))

\* group(1) of a match
Group1(s, got) == Slice(s, got.g1, got.g2)

\* s without the part that the match q covers
CutOut(s, q) == IF q = <<>> THEN s ELSE Slice(s, 0, q[1]) \o Slice(s, q[4], Len(s))

\* re.sub(r, '', s) for a pattern that matches at most once (anchored)
SubFirst(r, s, f) ==
  IF s = <<>> THEN s
  ELSE CutOut(s, M(Scan(Cap(Empty, r, Empty), LastStart(Empty, r, s, f)), s, 0, f))

(***************************************************************************)
(* str methods                                                             *)
(***************************************************************************)
\* s.lstrip(chars), s.rstrip(chars)
LStrip(s, cs) ==
  IF \A k \in 1..Len(s) : s[k] \in cs THEN <<>>
  ELSE SubSeq(s, CHOOSE k \in 1..Len(s) : s[k] \notin cs /\ \A j \in 1..(k - 1) : s[j] \in cs, Len(s))
RStrip(s, cs) ==
  IF s = <<>> \/ s[Len(s)] \notin cs THEN s
  ELSE IF \A k \in 1..Len(s) : s[k] \in cs THEN <<>>
  ELSE SubSeq(s, 1, CHOOSE k \in 1..Len(s) : s[k] \notin cs /\ \A j \in (k + 1)..Len(s) : s[j] \in cs)
\* s.strip(chars)
StripChars(s, cs) == RStrip(LStrip(s, cs), cs)
\* s.strip()
Strip(s) == StripChars(s, SpaceSet)

\* the pieces of s between the positions nl of its newlines
Pieces(s, nl) ==
  [j \in 1..(Len(nl) + 1) |->
     SubSeq(s, IF j = 1 THEN 1 ELSE nl[j - 1] + 1, IF j = Len(nl) + 1 THEN Len(s) ELSE nl[j] - 1)]

\* s.split('\n')
Split(s) == Pieces(s, SelectSeq(Indices(Len(s)), LAMBDA k : s[k] = "\n"))

\* p without a last empty piece
DropLastEmpty(p) == IF p[Len(p)] = <<>> THEN SubSeq(p, 1, Len(p) - 1) ELSE p

\* s.splitlines()
SplitLines(s) == DropLastEmpty(Split(s))

\* '\n'.join(ls)
RECURSIVE JoinFrom(_, _)
JoinFrom(ls, k) ==
  IF k > Len(ls) THEN <<>>
  ELSE IF k = Len(ls) THEN ls[k]
  ELSE ls[k] \o <<"\n">> \o JoinFrom(ls, k + 1)
Join(ls) == JoinFrom(ls, 1)

\* Python's None
None == <<"<None>">>
\* truthiness of an Optional[str]
Truthy(v) == v # None /\ v # <<>>

(***************************************************************************)
(* Local variables and match objects                                       *)
(***************************************************************************)
\* m.group(1) of a match object m on s, as [ok, val]; ok is `m is not None`
ValOf(s, m) == IF m.ok THEN [ok |-> TRUE, val |-> Group1(s, m)] ELSE [ok |-> FALSE, val |-> <<>>]

\* `for v in vs: if v is not none: return v`: the first element of vs other
\* than `none`, or `none`
FirstOf(vs, none) == Head(SelectSeq(vs, LAMBDA v : v # none) \o <<none>>)

\* `a or b` on match objects
OrGot(a, b) == IF a.ok THEN a ELSE b

\* `a or b` / `a if a else b` on Optional[str]
OrElse(a, b) == IF Truthy(a) THEN a ELSE b


(***************************************************************************)
(* modules/config.py                                                       *)
(***************************************************************************)
\* NOISE_LABELS
NOISE_LABELS == <<
  Lit(<<"T","e","l","e","p","h","o","n","e">>), Lit(<<"T","e","l">>), Lit(<<"P","h","o","n","e">>), Lit(<<"F","a","x">>), Cat(<<Lit(<<"E">>), Opt(Lit(<<"-">>)), Lit(<<"m","a","i","l">>)>>), Lit(<<"W","e","b","s","i","t","e">>), Lit(<<"E","m","a","i","l">>),
  Lit(<<"E","m","e","r","g","e","n","c","y">>), Lit(<<"A","d","d","r","e","s","s">>), Lit(<<"P","o","i","s","o","n">>), Cat(<<Lit(<<"P","r","o","d","u","c","t">>), Plus(Sp), Lit(<<"c","o","d","e">>)>>), Cat(<<Lit(<<"S","D","S">>), Plus(Sp), Lit(<<"n","o">>), Opt(Lit(<<".">>))>>), Cat(<<Lit(<<"S","D","S">>), Plus(Sp), Lit(<<"n","u","m","b","e","r">>)>>),
  Cat(<<Lit(<<"P","a","g","e">>), Plus(Sp), Plus(Dig)>>), Cat(<<Lit(<<"D","a","t","e">>), Plus(Sp), Lit(<<"o","f">>), Plus(Sp), Lit(<<"i","s","s","u","e">>)>>), Cat(<<Lit(<<"R","e","v","i","s","i","o","n">>), Plus(Sp), Lit(<<"d","a","t","e">>)>>), Lit(<<"V","e","r","s","i","o","n">>),
  Cat(<<Lit(<<"D","e","t","a","i","l","s">>), Plus(Sp), Lit(<<"o","f">>), Plus(Sp), Lit(<<"t","h","e">>), Plus(Sp), Lit(<<"s","u","p","p","l","i","e","r">>)>>), Cat(<<Lit(<<"C","o","n","t","a","c","t">>), Plus(Sp), Lit(<<"d","e","t","a","i","l","s">>)>>), Cat(<<Lit(<<"E","m","e","r","g","e","n","c","y">>), Plus(Sp), Lit(<<"t","e","l","e","p","h","o","n","e">>)>>),
  Cat(<<Lit(<<"M","S","D","S">>), Plus(Sp), Lit(<<"D","a","t","e">>)>>), Cat(<<Lit(<<"A","l","t","e","r","n","a","t","i","v","e">>), Plus(Sp), Lit(<<"n","u","m","b","e","r">>)>>), Cat(<<Lit(<<"F","a","c","s","i","m","i","l","e">>), Plus(Sp), Lit(<<"N","u","m","b","e","r">>)>>), Lit(<<"N","a","m","e">>),
  Cat(<<Lit(<<"A","u","s","t","r","a","l","i","a">>), Plus(Sp), Lit(<<"-">>), Plus(Sp), Plus(Dig)>>), Cat(<<Lit(<<"U","K">>), Opt(Lit(<<",">>)), Plus(Sp), Lit(<<"N","P","I","S">>)>>), Cat(<<Lit(<<"R","e","g","i","s","t","e","r","e","d">>), Plus(Sp), Lit(<<"c","o","m","p","a","n","y">>), Plus(Sp), Lit(<<"n","a","m","e">>)>>),
  Cat(<<Lit(<<"S","a","f","e","t","y">>), Plus(Sp), Lit(<<"d","a","t","a">>), Plus(Sp), Lit(<<"s","h","e","e","t">>)>>), Cat(<<Lit(<<"D","o","c","u","m","e","n","t">>), Plus(Sp), Lit(<<"n","u","m","b","e","r">>)>>), Cat(<<Rep(Dig, 2, 4), Plus(Sp), Rep(Dig, 2, 4), Plus(Sp), Rep(Dig, 2, 4)>>),
  Cat(<<Lit(<<"D","o","c","u","m","e","n","t">>), Plus(Sp), Lit(<<"t","y","p","e">>)>>), Lit(<<"C","o","u","n","t","r","y">>), Lit(<<"L","a","n","g","u","a","g","e">>), Lit(<<"F","o","r","m","a","t">>) >>

\* VALID_DG_CLASSES
VALID_DG_CLASSES == Cat(<<Bol, Set({"1", "2", "3", "4", "5", "6", "7", "8", "9"}), Opt(Cat(<<Lit(<<".">>), Set({"1", "2", "3", "4", "5", "6", "7", "8", "9"})>>)), Eol>>)

\* VALID_PACKING_GROUPS (compiled with re.IGNORECASE)
VALID_PACKING_GROUPS == Cat(<<Bol, Alt(<<Rep(Lit(<<"I">>), 1, 3), Cat(<<Lit(<<"I">>), Opt(Lit(<<"V">>))>>), Cat(<<Lit(<<"N">>), Opt(Lit(<<".">>)), Opt(Lit(<<"/">>)), Lit(<<"A">>), Opt(Lit(<<".">>))>>), Lit(<<"N","o","n","e">>), Cat(<<Lit(<<"N","o","t">>), Plus(Sp), Alt(<<Lit(<<"a","p","p","l","i","c","a","b","l","e">>), Lit(<<"r","e","q","u","i","r","e","d">>), Lit(<<"a","s","s","i","g","n","e","d">>)>>)>>), Cat(<<Lit(<<"N","o","t">>), Plus(Sp), Lit(<<"s","u","b","j","e","c","t">>)>>)>>), Eol>>)

(***************************************************************************)
(* modules/utils.py                                                        *)
(***************************************************************************)
\* some pattern of the list ps full-matches s
AnyFullMatch(ps, s, f) == \E k \in 1..Len(ps) : FullMatch(ps[k], s, f)
\* some pattern of the list ps matches at the start of s
AnyMatch(ps, s, f) == \E k \in 1..Len(ps) : Match(ps[k], s, f)
\* some pattern of the list ps matches somewhere in s
AnySearch(ps, s, f) == \E k \in 1..Len(ps) : Search(ps[k], s, f)

\* the tests of utils.is_noise_text on the stripped text
U_noise_clean(text_clean) ==
  \/ AnyFullMatch(NOISE_LABELS, text_clean, CI)
  \/ Match(Cat(<<Bol, Star(Set(SpaceSet \cup {":", "-"})), Eol>>), text_clean, CS)
  \/ Match(Cat(<<Bol, Rep(Dig, 2, 4), Set(SpaceSet \cup {"-"}), Rep(Dig, 2, 4), Set(SpaceSet \cup {"-"}), Rep(Dig, 2, 4), Eol>>), text_clean, CS)
  \/ Match(Cat(<<Bol, Alt(<<Lit(<<"U","K">>), Lit(<<"U","S">>), Lit(<<"U","S","A">>), Lit(<<"E","U">>), Lit(<<"A","U">>), Lit(<<"N","Z">>), Lit(<<"J","P">>), Lit(<<"C","N">>)>>), Opt(Lit(<<",">>)), Plus(Sp), Rep(Set(UpperSet), 2, 4), WordB>>), text_clean, CS)
  \/ Search(Cat(<<WordB, Rep(Dig, 2, 4), Plus(Sp), Rep(Dig, 2, 4), Plus(Sp), Rep(Dig, 2, 4), WordB>>), text_clean, CS)
  \/ LowerStr(text_clean) \in {<<"n","a","m","e">>, <<"d","a","t","e">>, <<"a","d","d","r","e","s","s">>, <<"c","o","n","t","a","c","t">>, <<"d","e","t","a","i","l","s">>, <<"i","n","f","o","r","m","a","t","i","o","n">>}
  \/ LowerStr(text_clean) \in {<<"a","u","s","t","r","a","l","i","a">>, <<"n","e","w"," ","z","e","a","l","a","n","d">>, <<"u","n","i","t","e","d"," ","s","t","a","t","e","s">>,
                               <<"u","n","i","t","e","d"," ","k","i","n","g","d","o","m">>, <<"u","s","a">>, <<"u","k">>, <<"c","a","n","a","d","a">>}

\* utils.is_noise_text
U_is_noise_text(text) ==
  text = <<>> \/ Len(Strip(text)) < 2 \/ U_noise_clean(Strip(text))

\* utils.validate_dangerous_goods_class
U_not_applicable_patterns == <<
  Cat(<<Lit(<<"n","o">>), Opt(Lit(<<"t">>)), Plus(Sp), Lit(<<"r","e","g","u","l","a","t","e","d">>)>>), Cat(<<Lit(<<"n","o">>), Opt(Lit(<<"t">>)), Plus(Sp), Lit(<<"a","p","p","l","i","c","a","b","l","e">>)>>), Cat(<<Lit(<<"n","o">>), Opt(Lit(<<"t">>)), Plus(Sp), Lit(<<"r","e","q","u","i","r","e","d">>)>>), Cat(<<Lit(<<"n","o">>), Opt(Lit(<<"t">>)), Plus(Sp), Lit(<<"s","u","b","j","e","c","t">>)>>),
  Lit(<<"n","o","n","e">>), Cat(<<Lit(<<"n">>), Opt(Lit(<<"/">>)), Lit(<<"a">>)>>), Cat(<<Lit(<<"n","o","t">>), Plus(Sp), Lit(<<"a">>), Plus(Sp), Lit(<<"d","a","n","g","e","r","o","u","s">>), Plus(Sp), Lit(<<"g","o","o","d">>)>>) >>

U_valid_class(v) ==
  Match(VALID_DG_CLASSES, v, CS) \/ AnyFullMatch(U_not_applicable_patterns, v, CI)

U_validate_dangerous_goods_class(value) == Truthy(value) /\ U_valid_class(Strip(value))

\* utils.looks_like_numeric_code
NumericCode(s) == Len(s) >= 6 /\ ~Search(Set(UpperSet \cup LowerSet), s, CS) /\ Search(Dig, s, CS)
looks_like_numeric_code(value) == Truthy(value) /\ NumericCode(Strip(value))

(***************************************************************************)
(* sds_extractor.py                                                        *)
(***************************************************************************)
\* is_noise_text: noise_patterns
noise_patterns == <<
  Cat(<<Bol, Lit(<<"M","S","D","S">>), Plus(Sp), Lit(<<"D","a","t","e">>), Eol>>), Cat(<<Bol, Lit(<<"A","l","t","e","r","n","a","t","i","v","e">>), Plus(Sp), Lit(<<"n","u","m","b","e","r","(","s",")">>), Eol>>), Cat(<<Bol, Lit(<<"F","a","c","s","i","m","i","l","e">>), Plus(Sp), Lit(<<"N","u","m","b","e","r">>), Eol>>),
  Cat(<<Bol, Lit(<<"s","a","f","e","t","y">>), Plus(Sp), Lit(<<"d","a","t","a">>), Plus(Sp), Lit(<<"s","h","e","e","t">>), Eol>>), Cat(<<Bol, Lit(<<"N","a","m","e">>), Eol>>), Cat(<<Bol, Lit(<<"R","e","g","i","s","t","e","r","e","d">>), Plus(Sp), Lit(<<"c","o","m","p","a","n","y">>), Plus(Sp), Lit(<<"n","a","m","e">>), Eol>>), Cat(<<Bol, Lit(<<":">>), Eol>>),
  Cat(<<Bol, Set({"<rsquo>", "'", "<backtick>", "<acute>"}), Lit(<<"s">>), Eol>>), Cat(<<Bol, Lit(<<"U","K">>), Opt(Lit(<<",">>)), Plus(Sp), Lit(<<"N","P","I","S">>), Star(Dot), Rep(Dig, 2, 4), Plus(Sp), Rep(Dig, 2, 4), Plus(Sp), Rep(Dig, 2, 4)>>),
  Cat(<<Bol, Lit(<<"A","u","s","t","r","a","l","i","a">>), Plus(Sp), Lit(<<"-">>), Plus(Sp), Rep(Dig, 2, 4), Plus(Sp), Rep(Dig, 2, 4), Plus(Sp), Rep(Dig, 2, 4)>>), Cat(<<Bol, Rep(Dig, 2, 4), Set(SpaceSet \cup {"-"}), Rep(Dig, 2, 4), Set(SpaceSet \cup {"-"}), Rep(Dig, 2, 4)>>),
  Cat(<<Bol, Lit(<<"E","m","e","r","g","e","n","c","y">>), Plus(Sp), Lit(<<"t","e","l","e","p","h","o","n","e">>)>>), Cat(<<Bol, Lit(<<"C","o","n","t","a","c","t">>), Plus(Sp), Lit(<<"d","e","t","a","i","l","s">>)>>), Cat(<<Bol, Lit(<<"D","e","t","a","i","l","s">>), Plus(Sp), Lit(<<"o","f">>), Plus(Sp), Lit(<<"t","h","e">>), Plus(Sp), Lit(<<"s","u","p","p","l","i","e","r">>), Eol>>),
  Cat(<<Bol, Lit(<<"T","e","l","e","p","h","o","n","e">>)>>), Cat(<<Bol, Lit(<<"P","h","o","n","e">>)>>), Cat(<<Bol, Lit(<<"F","a","x">>)>>), Cat(<<Bol, Lit(<<"E","m","a","i","l">>)>>), Cat(<<Bol, Lit(<<"A","d","d","r","e","s","s">>)>>), Cat(<<Bol, Lit(<<"W","e","b","s","i","t","e">>)>>),
  Cat(<<Bol, Lit(<<"E","m","e","r","g","e","n","c","y">>), Plus(Sp), Lit(<<"T","e","l","e","p","h","o","n","e">>), Plus(Sp), Lit(<<"N","u","m","b","e","r">>), Eol>>), Cat(<<Bol, Lit(<<"C","o","m","p","a","n","y">>), Opt(Set({":", "."})), Star(Sp), Eol>>), Cat(<<Bol, Lit(<<"C","o","m","p","a","n","y">>), Plus(Sp), Lit(<<"N","o">>), Opt(Lit(<<".">>)), Opt(Set({":", "."})), Star(Sp), Eol>>),
  Cat(<<Bol, Lit(<<"O","t","h","e","r">>), Plus(Sp), Lit(<<"N","a","m","e","(","s",")">>), Eol>>), Cat(<<Bol, Lit(<<"F","o","r","m","u","l","a","t","i","o","n">>), Plus(Sp), Lit(<<"#">>), Eol>>), Cat(<<Bol, Lit(<<"R","e","g","i","s","t","r","a","t","i","o","n">>), Plus(Sp), Lit(<<"n","o">>), Opt(Lit(<<".">>)), Star(Sp), Opt(Lit(<<"<endash>">>)), Star(Sp), Lit(<<"U","S">>), Opt(Lit(<<":">>)), Star(Sp), Eol>>),
  Cat(<<Bol, Lit(<<"G","r","o","u","p">>), Eol>>), Cat(<<Bol, Lit(<<"S","y","n","o","n","y","m","s">>)>>), Cat(<<Bol, Lit(<<"P","r","o","d","u","c","t">>), Plus(Sp), Lit(<<"C","o","d","e">>)>>), Cat(<<Bol, Lit(<<"H","S">>), Plus(Sp), Lit(<<"C","o","d","e">>)>>), Cat(<<Bol, Lit(<<"-">>), Star(Sp), Lit(<<"-">>), Eol>>) >>

\* the tests of sds_extractor.is_noise_text on the stripped text
NoiseStripped(text) ==
  \/ text = <<>>
  \/ Len(text) < 2 /\ ~Match(Cat(<<Bol, Dig, Opt(Cat(<<Lit(<<".">>), Dig>>)), Eol>>), text, CS)
  \/ AnyMatch(noise_patterns, text, CI)

\* sds_extractor.is_noise_text
is_noise_text(text) == ~Truthy(text) \/ NoiseStripped(Strip(text))

\* sds_extractor.validate_dangerous_goods_class: na_patterns
na_patterns == <<
  Cat(<<Bol, Lit(<<"n","o">>), Opt(Lit(<<"t">>)), Plus(Sp), Lit(<<"r","e","g","u","l","a","t","e","d">>)>>), Cat(<<Bol, Lit(<<"n","o">>), Opt(Lit(<<"t">>)), Plus(Sp), Lit(<<"a","p","p","l","i","c","a","b","l","e">>)>>), Cat(<<Bol, Lit(<<"n","o","n","e">>), Eol>>), Cat(<<Bol, Lit(<<"n">>), Opt(Lit(<<"/">>)), Lit(<<"a">>), Eol>>),
  Cat(<<Bol, Lit(<<"n","o","t">>), Plus(Sp), Lit(<<"a">>), Plus(Sp), Lit(<<"d","a","n","g","e","r","o","u","s">>), Plus(Sp), Lit(<<"g","o","o","d">>)>>), Cat(<<Bol, Lit(<<"n","o","t">>), Plus(Sp), Lit(<<"s","u","b","j","e","c","t">>), Plus(Sp), Lit(<<"t","o">>)>>) >>

ValidClass(v) == Match(Cat(<<Bol, Set({"1", "2", "3", "4", "5", "6", "7", "8", "9"}), Opt(Cat(<<Lit(<<".">>), Set({"1", "2", "3", "4", "5", "6", "7", "8", "9"})>>)), Eol>>), v, CS) \/ AnyMatch(na_patterns, v, CI)

\* sds_extractor.validate_dangerous_goods_class
validate_dangerous_goods_class(value) == Truthy(value) /\ ValidClass(Strip(value))

(***************************************************************************)
(* modules/config.py: FIELD_LABELS                                         *)
(***************************************************************************)
FL_product_name == <<
  Cat(<<Lit(<<"T","r","a","d","e">>), Plus(Sp), Lit(<<"n","a","m","e">>)>>), Cat(<<Lit(<<"P","r","o","d","u","c","t">>), Plus(Sp), Lit(<<"N","a","m","e">>)>>), Cat(<<Lit(<<"P","r","o","d","u","c","t">>), Plus(Sp), Lit(<<"i","d","e","n","t","i","f","i","e","r">>)>>),
  Cat(<<Lit(<<"C","o","m","m","e","r","c","i","a","l">>), Plus(Sp), Lit(<<"p","r","o","d","u","c","t">>), Plus(Sp), Lit(<<"n","a","m","e">>)>>), Cat(<<Lit(<<"P","r","o","d","u","c","t">>), Plus(Sp), Lit(<<"d","e","s","i","g","n","a","t","i","o","n">>)>>), Cat(<<Lit(<<"P","r","o","d","u","c","t">>), Plus(Sp), Lit(<<"c","o","d","e">>)>>) >>
FL_manufacturer == <<
  Lit(<<"M","a","n","u","f","a","c","t","u","r","e","r">>), Cat(<<Lit(<<"S","u","p","p","l","i","e","r">>), Plus(Sp), Lit(<<"N","a","m","e">>)>>), Lit(<<"S","u","p","p","l","i","e","r">>), Cat(<<Lit(<<"C","o","m","p","a","n","y">>), Plus(Sp), Lit(<<"n","a","m","e">>), Plus(Sp), Lit(<<"o","f">>), Plus(Sp), Lit(<<"s","u","p","p","l","i","e","r">>)>>),
  Cat(<<Lit(<<"D","e","t","a","i","l","s">>), Plus(Sp), Lit(<<"o","f">>), Plus(Sp), Lit(<<"t","h","e">>), Plus(Sp), Lit(<<"s","u","p","p","l","i","e","r">>)>>), Lit(<<"P","r","o","d","u","c","e","r">>), Cat(<<Lit(<<"C","o","m","p","a","n","y">>), Plus(Sp), Lit(<<"n","a","m","e">>)>>),
  Cat(<<Lit(<<"R","e","g","i","s","t","e","r","e","d">>), Plus(Sp), Lit(<<"c","o","m","p","a","n","y">>), Plus(Sp), Lit(<<"n","a","m","e">>)>>), Lit(<<"D","i","s","t","r","i","b","u","t","o","r">>), Cat(<<Lit(<<"M","a","n","u","f","a","c","t","u","r","e","r">>), Star(Sp), Lit(<<"/">>), Star(Sp), Lit(<<"S","u","p","p","l","i","e","r">>)>>) >>
FL_product_use == <<
  Cat(<<Lit(<<"R","e","c","o","m","m","e","n","d","e","d">>), Plus(Sp), Lit(<<"u","s","e">>)>>), Cat(<<Lit(<<"I","n","t","e","n","d","e","d">>), Plus(Sp), Lit(<<"u","s","e">>)>>), Cat(<<Lit(<<"U","s","e">>), Plus(Sp), Lit(<<"o","f">>), Plus(Sp), Lit(<<"t","h","e">>), Plus(Sp), Lit(<<"s","u","b","s","t","a","n","c","e">>)>>), Cat(<<Lit(<<"U","s","e">>), Star(Sp), Lit(<<"(","s",")">>)>>),
  Cat(<<Lit(<<"U","s","e">>), WordB>>), Cat(<<Lit(<<"P","r","o","d","u","c","t">>), Plus(Sp), Lit(<<"u","s","e">>)>>), Cat(<<Lit(<<"R","e","l","e","v","a","n","t">>), Plus(Sp), Lit(<<"i","d","e","n","t","i","f","i","e","d">>), Plus(Sp), Lit(<<"u","s","e","s">>)>>), Cat(<<Lit(<<"I","d","e","n","t","i","f","i","e","d">>), Plus(Sp), Lit(<<"u","s","e","s">>)>>),
  Cat(<<Lit(<<"U","s","e","s">>), Plus(Sp), Lit(<<"a","d","v","i","s","e","d">>), Plus(Sp), Lit(<<"a","g","a","i","n","s","t">>)>>) >>
FL_dangerous_goods_class == <<
  Cat(<<Lit(<<"D","G">>), Plus(Sp), Lit(<<"C","l","a","s","s">>)>>), Lit(<<"C","l","a","s","s">>), Cat(<<Lit(<<"T","r","a","n","s","p","o","r","t">>), Plus(Sp), Lit(<<"h","a","z","a","r","d">>), Plus(Sp), Lit(<<"c","l","a","s","s">>)>>), Cat(<<Opt(Alt(<<Lit(<<"I","M","D","G">>), Lit(<<"I","A","T","A">>), Lit(<<"A","D","G">>)>>)), Star(Sp), Lit(<<"H","a","z","a","r","d">>), Plus(Sp), Lit(<<"C","l","a","s","s">>)>>),
  Cat(<<Lit(<<"A","u","s","t","r","a","l","i","a","n">>), Plus(Sp), Lit(<<"D","a","n","g","e","r","o","u","s">>), Plus(Sp), Lit(<<"G","o","o","d","s">>), Plus(Sp), Lit(<<"c","l","a","s","s">>)>>), Cat(<<Lit(<<"D","a","n","g","e","r","o","u","s">>), Plus(Sp), Lit(<<"g","o","o","d","s">>), Plus(Sp), Lit(<<"c","l","a","s","s">>)>>), Cat(<<Lit(<<"U","N">>), Plus(Sp), Lit(<<"C","l","a","s","s">>)>>) >>
FL_subsidiary_risk == <<
  Cat(<<Lit(<<"S","u","b","s","i","d","i","a","r","y">>), Plus(Sp), Lit(<<"r","i","s","k">>)>>), Cat(<<Lit(<<"S","u","b","s","i","d","i","a","r","y">>), Plus(Sp), Lit(<<"h","a","z","a","r","d">>)>>), Cat(<<Lit(<<"S","e","c","o","n","d","a","r","y">>), Plus(Sp), Lit(<<"r","i","s","k">>)>>) >>
FL_packing_group == <<
  Cat(<<Lit(<<"P","a","c","k","i","n","g">>), Plus(Sp), Lit(<<"g","r","o","u","p">>)>>), Lit(<<"P","G">>), Cat(<<Star(Dot), Lit(<<"p","a","c","k","i","n","g">>), Plus(Sp), Lit(<<"g","r","o","u","p">>)>>),
  Cat(<<Lit(<<"A","u","s","t","r","a","l","i","a","n">>), Plus(Sp), Lit(<<"D","a","n","g","e","r","o","u","s">>), Plus(Sp), Lit(<<"G","o","o","d","s">>), Plus(Sp), Lit(<<"p","a","c","k","i","n","g">>), Plus(Sp), Lit(<<"g","r","o","u","p">>)>>) >>

\* [l for labs in FIELD_LABELS.values() for l in labs]
ALL_FIELD_LABELS ==
  FL_product_name \o FL_manufacturer \o FL_product_use \o FL_dangerous_goods_class
    \o FL_subsidiary_risk \o FL_packing_group

(***************************************************************************)
(* modules/utils.py: compress_duplicates_with_map                          *)
(***************************************************************************)
\* `prev` when the loop of compress_duplicates_with_map reaches index idx
\* (0-based): the lower-cased last non-space character before it when that
\* is a letter, else None
PrevAt(s, idx) ==
  IF \A j \in 1..idx : s[j] \in SpaceSet THEN None
  ELSE With(CHOOSE j \in 1..idx : s[j] \notin SpaceSet /\ \A m \in (j + 1)..idx : s[m] \in SpaceSet,
            LAMBDA j : IF s[j] \in AlphaSet THEN <<Lower(s[j])>> ELSE None)

\* utils.compress_duplicates_with_map: a letter that repeats `prev` is dropped
\* and the map entry of the last kept character moves on to it; `kept` are the
\* (0-based) indices of the characters kept
compress_duplicates_with_map(s) ==
  With(SelectSeq([k \in 1..Len(s) |-> k - 1],
                 LAMBDA idx : ~(s[idx + 1] \in AlphaSet /\ <<Lower(s[idx + 1])>> = PrevAt(s, idx))),
       LAMBDA kept :
         [out |-> [k \in 1..Len(kept) |-> s[kept[k] + 1]],
          map |-> [k \in 1..Len(kept) |-> IF k = Len(kept) THEN Len(s) - 1 ELSE kept[k + 1] - 1]])

(***************************************************************************)
(* modules/field_extractor.py: extract_after_label                         *)
(***************************************************************************)
\* the four header-continuation fragments (continuation_noise, header_continuations)
header_continuations == <<
  Cat(<<Bol, Lit(<<"o","f">>), Plus(Sp), Lit(<<"t","h","e">>), Plus(Sp), Lit(<<"c","h","e","m","i","c","a","l">>), Plus(Sp), Lit(<<"a","n","d">>), Plus(Sp), Lit(<<"r","e","s","t","r","i","c","t","i","o","n","s">>), Plus(Sp), Lit(<<"o","n">>), Plus(Sp), Lit(<<"u","s","e">>), Eol>>),
  Cat(<<Bol, Lit(<<"o","f">>), Plus(Sp), Lit(<<"t","h","e">>), Plus(Sp), Lit(<<"s","a","f","e","t","y">>), Plus(Sp), Lit(<<"d","a","t","a">>), Plus(Sp), Lit(<<"s","h","e","e","t">>), Eol>>),
  Cat(<<Bol, Lit(<<"o","r">>), Plus(Sp), Lit(<<"s","u","p","p","l","i","e","r">>), Opt(Lit(<<"'">>)), Lit(<<"s">>), Plus(Sp), Lit(<<"d","e","t","a","i","l","s">>), Eol>>),
  Cat(<<Bol, Lit(<<"o","f">>), Plus(Sp), Lit(<<"t","h","e">>), Plus(Sp), Lit(<<"c","o","m","p","a","n","y","/","u","n","d","e","r","t","a","k","i","n","g">>), Eol>>) >>

\* the separators at which a same-line value is cut
separators == <<
  Cat(<<Plus(Sp), Lit(<<"T","e","l",":">>)>>), Cat(<<Plus(Sp), Lit(<<"P","h","o","n","e",":">>)>>), Cat(<<Plus(Sp), Lit(<<"F","a","x",":">>)>>), Cat(<<Plus(Sp), Lit(<<"E","m","a","i","l",":">>)>>), Cat(<<Plus(Sp), Lit(<<"W","e","b","s","i","t","e",":">>)>>),
  Cat(<<Plus(Sp), Lit(<<"E","m","e","r","g","e","n","c","y",":">>)>>), Cat(<<Plus(Sp), Lit(<<"A","d","d","r","e","s","s",":">>)>>), Cat(<<Plus(Sp), Lit(<<"C","o","n","t","a","c","t",":">>)>>), Cat(<<Plus(Sp), Lit(<<"P","r","o","d","u","c","t">>), Plus(Sp), Lit(<<"c","o","d","e",":">>)>>),
  Cat(<<Plus(Sp), Lit(<<"I","n","t","e","n","d","e","d">>), Plus(Sp), Lit(<<"u","s","e">>), WordB>>), Cat(<<Plus(Sp), Lit(<<"I","d","e","n","t","i","f","i","e","d">>), Plus(Sp), Lit(<<"u","s","e","s">>), WordB>>), Cat(<<Plus(Sp), Lit(<<"U","s","e","s">>), Plus(Sp), Lit(<<"a","d","v","i","s","e","d">>), Plus(Sp), Lit(<<"a","g","a","i","n","s","t">>), WordB>>),
  Cat(<<Plus(Sp), Lit(<<"U","s","e">>), Plus(Sp), Lit(<<"o","f">>), Plus(Sp), Lit(<<"t","h","e">>), Plus(Sp), Lit(<<"s","u","b","s","t","a","n","c","e">>), WordB>>), Cat(<<Plus(Sp), Lit(<<"R","e","s","t","r","i","c","t","i","o","n","s">>), Plus(Sp), Lit(<<"o","n">>), Plus(Sp), Lit(<<"u","s","e">>), WordB>>) >>

\* for separator in [...]: value = re.split(separator, value)[0].strip() at the
\* first separator of the list that occurs in value
CutAtSeparator(value) ==
  With(FirstOf([k \in 1..Len(separators) |-> SearchG(separators[k], Empty, Empty, value, CI)],
               NoMatch), LAMBDA split_match :
    IF split_match.ok THEN Strip(Slice(value, 0, split_match.st)) ELSE value)

\* lines 69-82: the duplicate-letter tolerant match of the label
EAL_tolerant(label, clean) ==
  With(compress_duplicates_with_map(clean), LAMBDA cm :
    With(OrGot(MatchG(Empty, label, Cat(<<Star(Sp), StarL(Set(SpaceSet \cup {":", "-"})), Star(Dot), Eol>>), cm.out, CI),
               SearchG(Empty, label, Cat(<<Star(Sp), StarL(Set(SpaceSet \cup {":", "-"})), Star(Dot), Eol>>), cm.out, CI)), LAMBDA m :
      IF ~m.ok THEN ValOf(clean, NoMatch)
      ELSE With(LStrip(Slice(clean,
                             IF 0 < m.g2 /\ m.g2 <= Len(cm.map) THEN cm.map[m.g2] + 1 ELSE 0,
                             Len(clean)),
                       {" ", ":", "\t", "-", "."}), LAMBDA tail_orig :
             IF tail_orig # <<>> THEN ValOf(tail_orig, MatchG(Bol, Plus(Dot), Eol, tail_orig, CS))
             ELSE ValOf(clean, NoMatch))))

\* lines 38-84: `same` of extract_after_label, as [ok, val] with val = same.group(1)
EAL_same(label, clean, field_name) ==
  With(SearchG(Cat(<<Bol, label, Star(Sp), Set({":", "-"}), Star(Sp)>>), Plus(Dot), Eol, clean, CI), LAMBDA same :
    IF same.ok THEN ValOf(clean, same)
    ELSE With(SearchG(Cat(<<Bol, label, Plus(Sp)>>), Plus(Dot), Eol, clean, CI), LAMBDA tmp :
      IF tmp.ok /\ ~AnyFullMatch(header_continuations, Strip(Group1(clean, tmp)), CI)
      THEN ValOf(clean, tmp)
      ELSE With(SearchG(Cat(<<label, Star(Sp), Set({":", "-"}), Star(Sp)>>), Plus(Dot), Eol, clean, CI), LAMBDA mid :
        IF mid.ok THEN ValOf(clean, mid)
        ELSE IF field_name \in {"description", "product_use"} THEN EAL_tolerant(label, clean)
        ELSE ValOf(clean, NoMatch))))

\* the clean-up of a same-line value up to the product-code test (lines 87-100);
\* re.IGNORECASE is passed as `count` in the last two: they match case-sensitively
EAL_value1(val) ==
  SubFirst(Cat(<<Bol, Lit(<<"o","f">>), Plus(Sp), Lit(<<"t","h","e">>), Plus(Sp), Lit(<<"s","u","b","s","t","a","n","c","e">>), Plus(Sp), Lit(<<"o","r">>), Plus(Sp), Lit(<<"m","i","x","t","u","r","e">>), Plus(Sp), Lit(<<"a","n","d">>), Plus(Sp), Lit(<<"u","s","e","s">>), Plus(Sp), Lit(<<"a","d","v","i","s","e","d">>), Plus(Sp), Lit(<<"a","g","a","i","n","s","t">>), Star(Sp)>>),
    SubFirst(Cat(<<Bol, Lit(<<"o","f">>), Plus(Sp), Lit(<<"t","h","e">>), Plus(Sp), Lit(<<"s","a","f","e","t","y">>), Plus(Sp), Lit(<<"d","a","t","a">>), Plus(Sp), Lit(<<"s","h","e","e","t">>), Star(Sp)>>),
      SubFirst(Cat(<<Bol, Lit(<<"o","f">>), Plus(Sp), Lit(<<"t","h","e">>), Plus(Sp), Alt(<<Lit(<<"s","u","b","s","t","a","n","c","e">>), Lit(<<"c","h","e","m","i","c","a","l">>)>>), Opt(Alt(<<Cat(<<Star(Sp), Lit(<<"/">>), Star(Sp), Lit(<<"m","i","x","t","u","r","e">>)>>), Cat(<<Plus(Sp), Lit(<<"o","r">>), Plus(Sp), Lit(<<"m","i","x","t","u","r","e">>)>>)>>)), Opt(Cat(<<Plus(Sp), Lit(<<"a","n","d">>), Plus(Sp), Lit(<<"u","s","e","s">>), Plus(Sp), Lit(<<"a","d","v","i","s","e","d">>), Plus(Sp), Lit(<<"a","g","a","i","n","s","t">>)>>)), Star(Sp), Star(Set({":", "-"})), Star(Sp)>>),
        SubFirst(Cat(<<Bol, Plus(Set({"\"", "'", "<backtick>"})), Lit(<<"s">>), WordB, Star(Sp)>>), Strip(val), CS), CI), CS), CS)

\* the clean-up of a same-line value after the product-code test (lines 111-137)
EAL_value2(v4) ==
  With(SubFirst(Cat(<<Plus(Sp), Lit(<<"P","a","g","e">>), Plus(Sp), Plus(Dig), Star(Dot), Eol>>),
         SubFirst(Cat(<<Star(Sp), Set({":", "-"}), Star(Sp), Eol>>), CutAtSeparator(v4), CS), CI), LAMBDA value :
    IF AnyFullMatch(header_continuations, value, CI) THEN <<>> ELSE value)

\* `continue` in a loop over lines
Skip == <<"<continue>">>

\* Case 2 of extract_after_label, one pass of the while loop over a line after
\* the label: Skip for `continue`, None for `break`, else the value returned
EAL_candidate(line, field_name) ==
  With(Strip(line), LAMBDA candidate_line :
    IF candidate_line = <<>> THEN Skip
    ELSE With(IF Head(candidate_line) = ":" THEN Strip(Tail(candidate_line)) ELSE candidate_line,
              LAMBDA candidate :
      IF AnySearch(ALL_FIELD_LABELS, candidate, CI) THEN None
      ELSE IF field_name = "product_name" /\ Match(Cat(<<Bol, Lit(<<"r","e","g","i","s","t","r","a","t","i","o","n">>), Plus(Sp), Lit(<<"n","o">>), Opt(Lit(<<".">>))>>), candidate, CI)
           THEN Skip
      ELSE IF AnyFullMatch(header_continuations, candidate, CI) THEN Skip
      ELSE IF field_name = "product_name" /\ Match(Cat(<<Bol, Star(Sp), Opt(Cat(<<Lit(<<"s","e","c","t","i","o","n">>), Star(Sp)>>)), Dig>>), candidate, CI)
           THEN Skip
      ELSE IF candidate # <<>> /\ ~U_is_noise_text(candidate) THEN candidate
      ELSE Skip))

\* an extraction that gives up when the value on the line of the label is
\* rejected
EAL_gives_up(lines, i, field_name) == None

\* Case 2: j = i + 1; while j < len(lines) and j < i + 5 (i is 0-based)
EAL_next(lines, i, field_name) ==
  With(FirstOf([n \in 1..(Min(i + 5, Len(lines)) - (i + 1)) |->
                  EAL_candidate(lines[i + 1 + n], field_name)], Skip), LAMBDA value :
    IF value = Skip THEN None ELSE value)

\* one pass of `for label in labels` at line i (0-based): the value returned,
\* or None when the loop goes on
EAL_label(lines, i, label, field_name) ==
  With(Strip(lines[i + 1]), LAMBDA clean :
    With(EAL_same(label, clean, field_name), LAMBDA same :
      With(EAL_value1(same.val), LAMBDA v4 :
        With(EAL_value2(v4), LAMBDA value :
          IF same.ok /\ Search(Cat(<<Lit(<<"p","r","o","d","u","c","t">>), Plus(Sp), Lit(<<"c","o","d","e">>)>>), v4, CI) THEN None
          ELSE IF same.ok /\ value # <<>> /\ ~U_is_noise_text(value) THEN value
          ELSE IF same.ok \/ FullMatch(label, clean, CI) THEN EAL_next(lines, i, field_name)
          ELSE None))))

\* a pass over the labels from the last of the list to the first
EAL_line_last(lines, i, labels, field_name) ==
  IF Strip(lines[i + 1]) = <<>> THEN None
  ELSE FirstOf([k \in 1..Len(labels) |->
                  EAL_label(lines, i, labels[Len(labels) + 1 - k], field_name)], None)

\* one pass of `for i, line in enumerate(lines)`
EAL_line(lines, i, labels, field_name) ==
  IF Strip(lines[i + 1]) = <<>> THEN None
  ELSE FirstOf([k \in 1..Len(labels) |-> EAL_label(lines, i, labels[k], field_name)], None)

\* field_extractor.extract_after_label
extract_after_label(section_text, labels, field_name) ==
  IF ~Truthy(section_text) THEN None
  ELSE With(SplitLines(section_text), LAMBDA lines :
         FirstOf([n \in 1..Len(lines) |-> EAL_line(lines, n - 1, labels, field_name)], None))

(***************************************************************************)
(* re.split, str.replace                                                   *)
(***************************************************************************)
\* re.split(r, s) for a pattern r that matches no empty string
RECURSIVE ReSplitFrom(_, _, _, _)
ReSplitFrom(r, s, f, from) ==
  With(SearchFrom(r, Empty, Empty, s, f, from), LAMBDA got :
    IF ~got.ok \/ got.en = got.st THEN <<Slice(s, from, Len(s))>>
    ELSE <<Slice(s, from, got.st)>> \o ReSplitFrom(r, s, f, got.en))
ReSplit(r, s, f) == ReSplitFrom(r, s, f, 0)

\* s.replace(a, b) for single characters a, b
ReplaceChar(s, a, b) == [k \in 1..Len(s) |-> IF s[k] = a THEN b ELSE s[k]]

\* the literal texts of a regex term, lower-cased
RECURSIVE TermLits(_), TermLitsOf(_, _)
TermLits(r) ==
  CASE r.t = "lit" -> {LowerStr(r.v)}
    [] r.t \in {"cat", "alt"} -> TermLitsOf(r.rs, 1)
    [] r.t \in {"rep", "la"} -> TermLits(r.r)
    [] OTHER -> {}
TermLitsOf(rs, k) == IF k > Len(rs) THEN {} ELSE TermLits(rs[k]) \cup TermLitsOf(rs, k + 1)

\* w in s (substring test)
Contains(s, w) == \E i \in 0..(Len(s) - Len(w)) : Slice(s, i, i + Len(w)) = w

\* 'manufacturer' in str(label).lower() or 'supplier' in str(label).lower()
NamesCompany(label) ==
  \E v \in TermLits(label) : Contains(v, <<"m","a","n","u","f","a","c","t","u","r","e","r">>) \/ Contains(v, <<"s","u","p","p","l","i","e","r">>)

(***************************************************************************)
(* sds_extractor.py: get_section                                           *)
(***************************************************************************)
\* str(section_num), 0 <= section_num <= 99
NumStr(n) ==
  IF n < 10 THEN <<DigitSeq[n + 1]>> ELSE <<DigitSeq[(n \div 10) + 1], DigitSeq[(n % 10) + 1]>>

\* start_pat of get_section
start_pat(section_num) ==
  IF section_num = 1 THEN Cat(<<Bol, Star(Sp), Opt(Cat(<<Lit(<<"s","e","c","t","i","o","n">>), Star(Sp)>>)), Lit(<<"1">>), Star(Sp), Opt(Set({":", "."})), Sp, Star(Dot), Lit(<<"i","d","e","n","t","i","f","i","c","a","t","i","o","n">>), Star(Dot), Eol>>)
  ELSE IF section_num = 14 THEN Cat(<<Bol, Star(Sp), Opt(Cat(<<Lit(<<"s","e","c","t","i","o","n">>), Star(Sp)>>)), Lit(<<"1","4">>), Star(Sp), Opt(Set({":", "."})), Sp, Star(Dot), Lit(<<"t","r","a","n","s","p","o","r","t">>), Star(Dot), Eol>>)
  ELSE With(Lit(NumStr(section_num)), LAMBDA num : Cat(<<Bol, Star(Sp), Opt(Cat(<<Lit(<<"s","e","c","t","i","o","n">>), Star(Sp)>>)), num, Star(Sp), Set({":", "."}), Sp, Star(Dot), Eol>>))

\* next_pat of get_section
next_pat == Cat(<<Bol, Star(Sp), Opt(Cat(<<Lit(<<"s","e","c","t","i","o","n">>), Star(Sp)>>)), Rep(Dig, 1, 2), Star(Sp), Set({":", "."}), Sp>>)

\* the looser pattern of get_section (re.DOTALL)
loose(section_num) ==
  With(Lit(NumStr(section_num)), LAMBDA num :
    Cat(<<Alt(<<Bol, Lit(<<"\n">>)>>), Star(Sp), Opt(Cat(<<Lit(<<"s","e","c","t","i","o","n">>), Star(Sp)>>)), num, NotAhead(Cat(<<Star(Sp), Lit(<<"/">>)>>)), Set(SpaceSet \cup {":", "."}), StarL(DotNL), Ahead(Alt(<<Cat(<<Lit(<<"\n">>), Star(Sp), Opt(Cat(<<Lit(<<"s","e","c","t","i","o","n">>), Star(Sp)>>)), Rep(Dig, 1, 2), NotAhead(Cat(<<Lit(<<".">>), Dig>>)), NotAhead(Cat(<<Star(Sp), Lit(<<"/">>)>>)), Set(SpaceSet \cup {":", "."})>>), Eol>>))>>))

\* sds_extractor.get_section
get_section(text, section_num) ==
  With(SearchG(Empty, start_pat(section_num), Empty, text, CIM), LAMBDA start_m :
    IF start_m.ok
    THEN With(SearchG(Empty, next_pat, Empty, Slice(text, start_m.st + 1, Len(text)), CIM),
              LAMBDA next_m :
           Slice(text, start_m.st, IF next_m.ok THEN start_m.st + 1 + next_m.st ELSE Len(text)))
    ELSE With(SearchG(Empty, loose(section_num), Empty, text, CI), LAMBDA m2 :
           IF m2.ok THEN Slice(text, m2.st, m2.en) ELSE <<>>))

(***************************************************************************)
(* modules/utils.py: get_section                                           *)
(***************************************************************************)
\* SECTION_PATTERN: group 1 is the section number
SECTION_PATTERN_pre  == Cat(<<Bol, Star(Sp), Opt(Cat(<<Lit(<<"s","e","c","t","i","o","n">>), Star(Sp)>>))>>)
SECTION_PATTERN_grp  == Rep(Dig, 1, 2)
SECTION_PATTERN_post == Cat(<<Set(SpaceSet \cup {":", "."}), Ahead(Sp)>>)

\* int(m.group(1))
RECURSIVE IntOf(_)
IntOf(ds) ==
  IF ds = <<>> THEN 0
  ELSE 10 * IntOf(SubSeq(ds, 1, Len(ds) - 1))
         + (CHOOSE d \in 0..9 : DigitSeq[d + 1] = ds[Len(ds)])

\* for m in SECTION_PATTERN.finditer(text, start): the start of the first
\* header whose number exceeds `number`, or len(text)
RECURSIVE U_section_end(_, _, _)
U_section_end(text, number, from) ==
  With(SearchFrom(SECTION_PATTERN_pre, SECTION_PATTERN_grp, SECTION_PATTERN_post, text, CIM, from),
       LAMBDA m :
    IF ~m.ok THEN Len(text)
    ELSE IF IntOf(Group1(text, m)) > number THEN m.st
    ELSE U_section_end(text, number, m.en))

\* utils.get_section
U_get_section(text, number) ==
  With(Lit(NumStr(number)), LAMBDA num :
    With(SearchG(Empty, Cat(<<Bol, Star(Sp), Opt(Cat(<<Lit(<<"s","e","c","t","i","o","n">>), Star(Sp)>>)), num, WordB, Star(NSet({"\n"}))>>), Empty, text, CIM), LAMBDA match :
      IF ~match.ok THEN <<>>
      ELSE Slice(text, match.en, U_section_end(text, number, match.en))))

(***************************************************************************)
(* modules/field_extractor.py: Section 14                                  *)
(***************************************************************************)
\* the cells / tokens of a table line
table_cells  == Alt(<<Rep(Sp, 2, Unbounded), Lit(<<"\t">>), Lit(<<"|">>)>>)
table_tokens == Alt(<<Plus(Sp), Lit(<<"|">>)>>)

\* the first element of the sequence q, from index k, that P accepts after f
\* has been applied to it; None when there is none
FirstThat(q, k, f(_), P(_)) ==
  With(SelectSeq([n \in 1..(Len(q) - k + 1) |-> f(q[n + k - 1])], P), LAMBDA ok :
    IF ok = <<>> THEN None ELSE ok[1])

\* a non-empty cell that VALID_PACKING_GROUPS matches
PG_cell_ok(part) == part # <<>> /\ Match(VALID_PACKING_GROUPS, part, CI)

\* the first valid cell of a table line
FE_pg_row(line) ==
  With(Strip(line), LAMBDA table_line :
    IF table_line = <<>> THEN None
    ELSE FirstThat(ReSplit(table_cells, table_line, CS), 1, Strip, PG_cell_ok))

\* the packing-group strategy of extract_from_table_structure at line i
\* (0-based): the cells of the line, then the rows j = i+1 .. min(i+4, len(lines))-1
FE_pg_at(lines, i) ==
  IF ~Search(Cat(<<Lit(<<"p","a","c","k","i","n","g">>), Plus(Sp), Lit(<<"g","r","o","u","p">>)>>), lines[i + 1], CI) THEN None
  ELSE With(ReSplit(table_cells, lines[i + 1], CS), LAMBDA parts :
    With(IF Len(parts) > 1 THEN FirstThat(parts, 2, Strip, PG_cell_ok) ELSE None, LAMBDA part :
      IF part # None THEN part
      ELSE FirstOf([n \in 1..(Min(i + 4, Len(lines)) - (i + 1)) |-> FE_pg_row(lines[i + 1 + n])],
                   None)))

FE_pg_table(lines) == FirstOf([n \in 1..Len(lines) |-> FE_pg_at(lines, n - 1)], None)

\* tok.strip(',;')
StripPunct(tok) == StripChars(tok, {",", ";"})

\* segment = [line] + the non-empty stripped lines among the next three
FE_segment(lines, i) ==
  <<lines[i + 1]>> \o
  SelectSeq([k \in 1..(Min(i + 4, Len(lines)) - (i + 1)) |-> Strip(lines[i + 1 + k])],
            LAMBDA nxt : nxt # <<>>)

\* the first token of a line that is a valid class
FE_dg_token(seg_line) ==
  FirstThat(ReSplit(table_tokens, seg_line, CS), 1, StripPunct, U_validate_dangerous_goods_class)

\* the dangerous-goods strategy of extract_from_table_structure at line i (0-based)
FE_dg_at(lines, i) ==
  IF ~(\/ Search(Alt(<<Cat(<<Lit(<<"D","G">>), Star(Sp), Lit(<<"C","l","a","s","s">>)>>), Cat(<<Lit(<<"H","a","z","a","r","d">>), Star(Sp), Lit(<<"C","l","a","s","s">>)>>), Cat(<<Lit(<<"T","r","a","n","s","p","o","r","t">>), Plus(Sp), Lit(<<"h","a","z","a","r","d">>), Opt(Cat(<<Plus(Sp), Lit(<<"c","l","a","s","s">>), Opt(Lit(<<"(","e","s",")">>))>>))>>)>>), lines[i + 1], CI)
       \/ /\ i > 0
          /\ Search(Cat(<<Bol, Star(Sp), Lit(<<"c","l","a","s","s">>), Opt(Lit(<<"(","e","s",")">>)), Star(Sp), Eol>>), lines[i + 1], CI)
          /\ Search(Cat(<<Lit(<<"T","r","a","n","s","p","o","r","t">>), Plus(Sp), Lit(<<"h","a","z","a","r","d">>)>>), lines[i], CI))
  THEN None
  ELSE With(FE_segment(lines, i), LAMBDA segment :
         FirstOf([k \in 1..Len(segment) |-> FE_dg_token(segment[k])], None))

FE_dg_table(lines) == FirstOf([n \in 1..Len(lines) |-> FE_dg_at(lines, n - 1)], None)

\* field_extractor.extract_from_table_structure
extract_from_table_structure(text, field_name) ==
  IF ~Truthy(text) THEN None
  ELSE IF field_name = "packing_group" THEN FE_pg_table(SplitLines(text))
  ELSE IF field_name = "dangerous_goods_class" THEN FE_dg_table(SplitLines(text))
  ELSE None

\* field_extractor.extract_section14_field
extract_section14_field(sec14, labels, field_name) ==
  IF ~Truthy(sec14) THEN None
  ELSE With(extract_after_label(sec14, labels, field_name), LAMBDA result :
    IF /\ Truthy(result)
       /\ IF field_name = "dangerous_goods_class" THEN U_validate_dangerous_goods_class(result)
          ELSE IF field_name = "packing_group" THEN Match(VALID_PACKING_GROUPS, result, CI)
          ELSE TRUE
    THEN result
    ELSE With(extract_from_table_structure(sec14, field_name), LAMBDA table_result :
           IF Truthy(table_result) THEN table_result ELSE None))

(***************************************************************************)
(* sds_extractor.py: extract_field_value and the table fallbacks           *)
(***************************************************************************)
COMMON_FIELD_LABELS == <<
  Cat(<<Lit(<<"P","r","o","d","u","c","t">>), Plus(Sp), Lit(<<"i","d","e","n","t","i","f","i","e","r">>)>>), Cat(<<Lit(<<"P","r","o","d","u","c","t">>), Plus(Sp), Lit(<<"n","a","m","e">>)>>), Cat(<<Lit(<<"T","r","a","d","e">>), Plus(Sp), Lit(<<"n","a","m","e">>)>>), Cat(<<Lit(<<"C","o","m","m","e","r","c","i","a","l">>), Plus(Sp), Lit(<<"p","r","o","d","u","c","t">>), Plus(Sp), Lit(<<"n","a","m","e">>)>>),
  Lit(<<"M","a","n","u","f","a","c","t","u","r","e","r">>), Cat(<<Lit(<<"S","u","p","p","l","i","e","r">>), Plus(Sp), Lit(<<"N","a","m","e">>)>>), Lit(<<"S","u","p","p","l","i","e","r">>), Cat(<<Lit(<<"C","o","m","p","a","n","y">>), Plus(Sp), Lit(<<"n","a","m","e">>), Plus(Sp), Lit(<<"o","f">>), Plus(Sp), Lit(<<"s","u","p","p","l","i","e","r">>)>>),
  Lit(<<"P","r","o","d","u","c","e","r">>), Cat(<<Lit(<<"C","o","m","p","a","n","y">>), Plus(Sp), Lit(<<"n","a","m","e">>)>>), Cat(<<Lit(<<"R","e","g","i","s","t","e","r","e","d">>), Plus(Sp), Lit(<<"c","o","m","p","a","n","y">>), Plus(Sp), Lit(<<"n","a","m","e">>)>>), Lit(<<"D","i","s","t","r","i","b","u","t","o","r">>),
  Cat(<<Lit(<<"P","r","o","d","u","c","t">>), Plus(Sp), Lit(<<"d","e","s","c","r","i","p","t","i","o","n">>)>>), Lit(<<"D","e","s","c","r","i","p","t","i","o","n">>), Cat(<<Lit(<<"U","s","e">>), Plus(Sp), Lit(<<"o","f">>), Plus(Sp), Lit(<<"t","h","e">>), Plus(Sp), Lit(<<"s","u","b","s","t","a","n","c","e">>)>>), Cat(<<Lit(<<"R","e","c","o","m","m","e","n","d","e","d">>), Plus(Sp), Lit(<<"u","s","e">>)>>),
  Cat(<<Lit(<<"I","n","t","e","n","d","e","d">>), Plus(Sp), Lit(<<"u","s","e">>)>>), Cat(<<Lit(<<"P","r","o","d","u","c","t">>), Plus(Sp), Lit(<<"u","s","e">>)>>), Cat(<<Lit(<<"R","e","l","e","v","a","n","t">>), Plus(Sp), Lit(<<"i","d","e","n","t","i","f","i","e","d">>), Plus(Sp), Lit(<<"u","s","e","s">>)>>), Cat(<<Lit(<<"I","d","e","n","t","i","f","i","e","d">>), Plus(Sp), Lit(<<"u","s","e","s">>)>>),
  Lit(<<"A","p","p","l","i","c","a","t","i","o","n">>), Cat(<<Lit(<<"C","h","e","m","i","c","a","l">>), Plus(Sp), Lit(<<"N","a","m","e">>)>>), Cat(<<Lit(<<"P","r","o","d","u","c","t">>), Plus(Sp), Lit(<<"c","o","d","e">>)>>), Cat(<<Lit(<<"S","y","n","o","n","y","m">>), Opt(Lit(<<"s">>))>>),
  Cat(<<Lit(<<"P","r","o","p","e","r">>), Plus(Sp), Lit(<<"s","h","i","p","p","i","n","g">>), Plus(Sp), Lit(<<"n","a","m","e">>)>>), Cat(<<Lit(<<"U","N">>), Plus(Sp), Lit(<<"n","u","m","b","e","r">>)>>), Lit(<<"H","a","z","c","h","e","m">>), Lit(<<"E","P","G">>),
  Cat(<<Lit(<<"P","a","c","k","i","n","g">>), Star(Sp), Lit(<<"G","r","o","u","p">>), Opt(Lit(<<"(","s",")">>))>>), Cat(<<Lit(<<"H","a","z","a","r","d">>), Star(Sp), Lit(<<"c","l","a","s","s">>), Opt(Lit(<<"(","e","s",")">>))>>) >>

\* for other in COMMON_FIELD_LABELS: the value is cut where the first label
\* of the list that occurs in it starts
OtherLabel(k) == With(COMMON_FIELD_LABELS[k], LAMBDA other : Cat(<<other, Star(Sp), Opt(Set({":", "-"}))>>))
CutAtLabel(value) ==
  With(FirstOf([k \in 1..Len(COMMON_FIELD_LABELS) |->
                  SearchG(Empty, OtherLabel(k), Empty, value, CI)], NoMatch), LAMBDA other_match :
    IF other_match.ok THEN Strip(Slice(value, 0, other_match.st)) ELSE value)

\* re.sub(r"^[...]+s\b\s*", "", value): a leading possessive artefact
StripPossessive(value) == SubFirst(Cat(<<Bol, Plus(Set({"<rsquo>", "'", "<backtick>", "<acute>"})), Lit(<<"s">>), WordB, Star(Sp)>>), value, CS)
\* re.sub(r'\s*[:\-]\s*$', '', value)
StripTrailingColon(value) == SubFirst(Cat(<<Star(Sp), Set({":", "-"}), Star(Sp), Eol>>), value, CS)
\* re.sub(r'\s+(Tel|Phone|Fax|Email|Emergency).*$', '', value, re.IGNORECASE):
\* the flag is passed as `count`, so the pattern is matched case-sensitively
StripContact(value) == SubFirst(Cat(<<Plus(Sp), Alt(<<Lit(<<"T","e","l">>), Lit(<<"P","h","o","n","e">>), Lit(<<"F","a","x">>), Lit(<<"E","m","a","i","l">>), Lit(<<"E","m","e","r","g","e","n","c","y">>)>>), Star(Dot), Eol>>), value, CS)
\* re.sub(r'\b[A-Z0-9]{2,}[/A-Z0-9\-]*$', '', value).strip()
StripTrailingCode(value) == Strip(SubFirst(Cat(<<WordB, Rep(Set(UpperSet \cup DigitSet), 2, Unbounded), Star(Set(UpperSet \cup DigitSet \cup {"/", "-"})), Eol>>), value, CS))

\* the value taken from the same line as the label
EFV_same_value(group1) ==
  StripTrailingCode(CutAtLabel(StripContact(StripTrailingColon(StripPossessive(Strip(group1))))))

\* the value taken from a line after the label
EFV_next_value(candidate) ==
  StripPossessive(StripTrailingCode(CutAtLabel(StripContact(StripTrailingColon(candidate)))))

\* one pass of `for j in range(i + 1, min(i + 6, len(lines)))`
EFV_candidate(line) ==
  With(Strip(line), LAMBDA candidate :
    IF candidate = <<>> \/ Head(candidate) = ":" THEN None
    ELSE With(EFV_next_value(candidate), LAMBDA value :
           IF value # <<>> /\ ~is_noise_text(value) THEN value ELSE None))

\* for j in range(i + 1, min(i + 6, len(lines)))
EFV_next(lines, i) ==
  FirstOf([n \in 1..(Min(i + 6, Len(lines)) - (i + 1)) |-> EFV_candidate(lines[i + 1 + n])], None)

\* one pass of `for label in field_labels` at line i (0-based): the value
\* returned, or None when the loop goes on
EFV_label(lines, i, label, field_labels) ==
  With(Strip(lines[i + 1]), LAMBDA line :
    With(OrGot(SearchG(Cat(<<Bol, label, Star(Sp), Opt(Set({":", "-"})), Star(Sp)>>), Plus(Dot), Eol, line, CI),
               SearchG(Cat(<<label, Star(Sp), Set({":", "-"}), Star(Sp)>>), Plus(Dot), Empty, line, CI)), LAMBDA match :
      With(EFV_same_value(ValOf(line, match).val), LAMBDA value :
        IF /\ match.ok
           /\ \E n \in 1..Len(field_labels) : NamesCompany(field_labels[n])
           /\ Match(Cat(<<Bol, Lit(<<"o","f">>), Plus(Sp), Lit(<<"t","h","e">>), Plus(Sp), Lit(<<"s","a","f","e","t","y">>), Plus(Sp), Lit(<<"d","a","t","a">>), Plus(Sp), Lit(<<"s","h","e","e","t">>), Star(Sp), Eol>>), value, CI)
        THEN None
        ELSE IF match.ok /\ value # <<>> /\ ~is_noise_text(value) THEN value
        ELSE IF ~Match(Cat(<<Bol, label, Star(Sp), Opt(Set({":", "-"})), Star(Sp), Eol>>), line, CI) THEN None
        ELSE EFV_next(lines, i))))

\* one pass of `for i, line in enumerate(lines)`
EFV_line(lines, i, field_labels) ==
  IF Strip(lines[i + 1]) = <<>> THEN None
  ELSE FirstOf([k \in 1..Len(field_labels) |-> EFV_label(lines, i, field_labels[k], field_labels)],
               None)

\* sds_extractor.extract_field_value
extract_field_value(text, field_labels, section_text) ==
  With(IF Truthy(section_text) THEN section_text ELSE text, LAMBDA search_text :
    IF ~Truthy(search_text) THEN None
    ELSE With(Split(search_text), LAMBDA lines :
           FirstOf([n \in 1..Len(lines) |-> EFV_line(lines, n - 1, field_labels)], None)))

\* the first token of a table line that is a valid class
DG_table_token(line) ==
  FirstThat(ReSplit(Plus(Sp), ReplaceChar(line, "|", " "), CS), 1, StripPunct,
            validate_dangerous_goods_class)

\* sds_extractor.extract_dg_class_from_table
extract_dg_class_from_table(section_text) ==
  IF ~Truthy(section_text) THEN None
  ELSE With(SplitLines(section_text), LAMBDA all :
    With(SelectSeq([k \in 1..Len(all) |-> Strip(all[k])], LAMBDA l : l # <<>>), LAMBDA lines :
      With({k \in 1..Len(lines) : Search(Alt(<<Cat(<<Lit(<<"D","G">>), Plus(Sp), Lit(<<"C","l","a","s","s">>)>>), Cat(<<Lit(<<"C","l","a","s","s">>), Star(Sp), Lit(<<":">>)>>)>>), lines[k], CI)}, LAMBDA hits :
        IF hits = {} THEN None
        ELSE With(CHOOSE k \in hits : \A m \in hits : k <= m, LAMBDA header_index :
               FirstOf([n \in 1..(Min(header_index + 5, Len(lines)) - header_index + 1) |->
                          DG_table_token(lines[header_index + n - 1])], None)))))

\* the pattern of a packing-group cell of extract_packing_group_from_table
PG_TABLE_VALUE == Cat(<<Bol, Alt(<<Rep(Lit(<<"I">>), 1, 3), Cat(<<Lit(<<"I">>), Opt(Lit(<<"V">>))>>), Cat(<<Lit(<<"N">>), Opt(Lit(<<".">>)), Opt(Lit(<<"/">>)), Lit(<<"A">>), Opt(Lit(<<".">>))>>), Lit(<<"N","o","n","e">>), Cat(<<Lit(<<"N","o","t">>), Plus(Sp), Alt(<<Lit(<<"a","p","p","l","i","c","a","b","l","e">>), Lit(<<"r","e","q","u","i","r","e","d">>), Lit(<<"a","s","s","i","g","n","e","d">>)>>)>>), Cat(<<Lit(<<"N","o","t">>), Plus(Sp), Lit(<<"s","u","b","j","e","c","t">>)>>)>>), Eol>>)
PG_table_cell_ok(part) == part # <<>> /\ Match(PG_TABLE_VALUE, part, CI)

\* the first valid cell of a table line
PG_row(line) ==
  With(Strip(line), LAMBDA table_line :
    IF table_line = <<>> THEN None
    ELSE FirstThat(ReSplit(table_cells, table_line, CS), 1, StripPunct, PG_table_cell_ok))

\* extract_packing_group_from_table at line i (0-based): the cells of the
\* line, then the rows j = i+1 .. min(i+4, len(lines))-1
PG_at(lines, i) ==
  IF ~Search(Cat(<<Lit(<<"p","a","c","k","i","n","g">>), Plus(Sp), Lit(<<"g","r","o","u","p">>)>>), lines[i + 1], CI) THEN None
  ELSE With(ReSplit(table_cells, lines[i + 1], CS), LAMBDA parts :
    With(IF Len(parts) > 1 THEN FirstThat(parts, 2, StripPunct, PG_table_cell_ok) ELSE None,
         LAMBDA part :
      IF part # None THEN part
      ELSE FirstOf([n \in 1..(Min(i + 4, Len(lines)) - (i + 1)) |-> PG_row(lines[i + 1 + n])],
                   None)))

\* sds_extractor.extract_packing_group_from_table
extract_packing_group_from_table(section_text) ==
  IF ~Truthy(section_text) THEN None
  ELSE With(SplitLines(section_text), LAMBDA lines :
         FirstOf([n \in 1..Len(lines) |-> PG_at(lines, n - 1)], None))

(***************************************************************************)
(* sds_extractor.py: the label lists of parse_pdf                          *)
(***************************************************************************)
dg_labels == <<
  Cat(<<Lit(<<"D","G">>), Star(Sp), Lit(<<"C","l","a","s","s">>)>>), Lit(<<"C","l","a","s","s">>), Lit(<<"C","l","a","s","s","/","D","i","v","i","s","i","o","n">>), Cat(<<Lit(<<"T","r","a","n","s","p","o","r","t">>), Star(Sp), Lit(<<"h","a","z","a","r","d">>), Star(Sp), Lit(<<"c","l","a","s","s">>), Opt(Lit(<<"(","e","s",")">>))>>),
  Cat(<<Opt(Alt(<<Lit(<<"I","M","D","G">>), Lit(<<"I","A","T","A">>), Lit(<<"A","D","G">>)>>)), Star(Sp), Lit(<<"H","a","z","a","r","d">>), Star(Sp), Lit(<<"C","l","a","s","s">>), Opt(Lit(<<"(","e","s",")">>))>>), Cat(<<Lit(<<"H","a","z","a","r","d">>), Star(Sp), Lit(<<"c","l","a","s","s">>), Opt(Lit(<<"(","e","s",")">>))>>),
  Cat(<<Lit(<<"D","a","n","g","e","r","o","u","s">>), Star(Sp), Lit(<<"g","o","o","d","s">>), Star(Sp), Lit(<<"c","l","a","s","s">>)>>), Cat(<<Lit(<<"U","N">>), Star(Sp), Lit(<<"C","l","a","s","s">>)>>) >>
pg_labels == <<
  Cat(<<Lit(<<"P","a","c","k","i","n","g">>), Star(Sp), Lit(<<"g","r","o","u","p">>), Opt(Lit(<<"(","s",")">>))>>), Cat(<<Lit(<<"P","a","c","k","i","n","g">>), Star(Sp), Lit(<<"g","r","o","u","p">>), Star(Sp), Lit(<<"(","i","f">>), Star(Sp), Lit(<<"a","p","p","l","i","c","a","b","l","e",")">>)>>), Lit(<<"P","G">>) >>
subsidiary_labels == << Cat(<<Lit(<<"S","u","b","s","i","d","i","a","r","y">>), Plus(Sp), Lit(<<"r","i","s","k">>)>>) >>

(***************************************************************************)
(* str methods used by the Section 1 extractors                            *)
(***************************************************************************)
UpperStr(s) == [k \in 1..Len(s) |-> Upper(s[k])]

\* the positions at which the words of s.split() start and end
WordStarts(s) ==
  SelectSeq(Indices(Len(s)), LAMBDA k : s[k] \notin SpaceSet /\ (k = 1 \/ s[k - 1] \in SpaceSet))
WordEnds(s) ==
  SelectSeq(Indices(Len(s)), LAMBDA k : s[k] \notin SpaceSet /\ (k = Len(s) \/ s[k + 1] \in SpaceSet))

\* s.split()
Words(s) ==
  With(WordStarts(s), LAMBDA a : With(WordEnds(s), LAMBDA b :
    [n \in 1..Len(a) |-> SubSeq(s, a[n], b[n])]))

\* re.sub(r"\s+", " ", s)
CollapseSpace(s) ==
  With(SelectSeq(Indices(Len(s)), LAMBDA k : ~(s[k] \in SpaceSet /\ k > 1 /\ s[k - 1] \in SpaceSet)),
       LAMBDA keep : [n \in 1..Len(keep) |-> IF s[keep[n]] \in SpaceSet THEN " " ELSE s[keep[n]]])

\* " ".join(raw.split()[n:])
JoinWordsFrom(raw, n) ==
  With(WordStarts(raw), LAMBDA a :
    IF n >= Len(a) THEN <<>> ELSE CollapseSpace(Strip(SubSeq(raw, a[n + 1], Len(raw)))))

\* re.sub(r, '', s) for a pattern r that matches no empty string
RECURSIVE SubAllFrom(_, _, _, _)
SubAllFrom(r, s, f, from) ==
  With(SearchFrom(r, Empty, Empty, s, f, from), LAMBDA got :
    IF ~got.ok \/ got.en = got.st THEN Slice(s, from, Len(s))
    ELSE Slice(s, from, got.st) \o SubAllFrom(r, s, f, got.en))
SubAll(r, s, f) == SubAllFrom(r, s, f, 0)

(***************************************************************************)
(* modules/utils.py: strip_doubled_label_prefix, clean_company_candidate   *)
(***************************************************************************)
\* re.sub(r"(.)\1+", r"\1", token): a run of one character becomes that character
U_compress_consecutive_duplicates(token) ==
  SelectSeq([k \in 1..Len(token) |-> <<k, token[k]>>],
            LAMBDA p : ~(p[1] > 1 /\ token[p[1] - 1] = p[2] /\ p[2] # "\n"))

\* _compress_consecutive_duplicates(p).upper().strip(" :\t-._")
NormHead(p) ==
  With(U_compress_consecutive_duplicates(p), LAMBDA c :
    StripChars(UpperStr([k \in 1..Len(c) |-> c[k][2]]), {" ", ":", "\t", "-", ".", "_"}))

doubled_labels == <<
  <<<<"P","R","O","D","U","C","T">>, <<"N","A","M","E">>>>, <<<<"P","R","O","D","U","C","T">>, <<"I","D","E","N","T","I","F","I","E","R">>>>, <<<<"T","R","A","D","E">>, <<"N","A","M","E">>>>,
  <<<<"G","H","S">>, <<"P","R","O","D","U","C","T">>, <<"I","D","E","N","T","I","F","I","E","R">>>> >>

\* one pass of `for tokens in labels`: the value returned, or None
SDLP_label(raw, parts, tokens) ==
  IF Len(parts) >= Len(tokens) /\ [k \in 1..Len(tokens) |-> NormHead(parts[k])] = tokens
  THEN With(Strip(LStrip(JoinWordsFrom(raw, Len(tokens)), {" ", ":", "\t", "-", ".", "_"})),
            LAMBDA remainder : IF remainder # <<>> THEN remainder ELSE raw)
  ELSE None

\* utils.strip_doubled_label_prefix
strip_doubled_label_prefix(text) ==
  IF ~Truthy(text) THEN text
  ELSE With(Strip(text), LAMBDA raw :
    IF raw = <<>> THEN raw
    ELSE With(Words(raw), LAMBDA parts :
      FirstOf([k \in 1..Len(doubled_labels) |-> SDLP_label(raw, parts, doubled_labels[k])] \o <<raw>>,
              None)))

\* the noise tokens after which a company candidate is cut (step 5)
company_noise_tokens ==
  Cat(<<WordB, Alt(<<Cat(<<Lit(<<"A","s","s","o","c","i","a","t","i","o","n">>), Star(Sp), Opt(Lit(<<"/">>)), Star(Sp), Lit(<<"O","r","g","a","n","i","s","a","t","i","o","n">>)>>), Cat(<<Lit(<<"P","o","i","s","o","n">>), Opt(Lit(<<"s">>)), Plus(Sp), Lit(<<"I","n","f","o","r","m","a","t","i","o","n">>)>>), Cat(<<Lit(<<"P","o","i","s","o","n">>), Plus(Sp), Lit(<<"I","n","f","o","r","m","a","t","i","o","n">>)>>), Cat(<<Lit(<<"E","m","e","r","g","e","n","c","y">>), Opt(Alt(<<Cat(<<Plus(Sp), Lit(<<"t","e","l","e","p","h","o","n","e">>)>>), Cat(<<Plus(Sp), Lit(<<"p","h","o","n","e">>)>>)>>))>>), Cat(<<Lit(<<"A","B","N">>), WordB>>), Cat(<<Lit(<<"A","C","N">>), WordB>>), Lit(<<"A","d","d","r","e","s","s">>), Lit(<<"C","o","n","t","a","c","t">>), Lit(<<"W","e","b","s","i","t","e">>), Lit(<<"E","m","a","i","l">>), Cat(<<Lit(<<"T","e","l">>), Opt(Lit(<<".">>))>>), Lit(<<"P","h","o","n","e">>), Lit(<<"F","a","x">>)>>), WordB>>)

\* steps 1 and 2 of clean_company_candidate
CCC_unprefixed(value) ==
  SubFirst(Cat(<<Bol, Alt(<<Cat(<<Lit(<<"C","o","m","p","a","n","y">>), Plus(Sp), Lit(<<"a","n","d">>), Plus(Sp), Lit(<<"a","d","d","r","e","s","s">>)>>), Lit(<<"C","o","m","p","a","n","y">>), Lit(<<"M","a","n","u","f","a","c","t","u","r","e","r">>), Cat(<<Lit(<<"S","u","p","p","l","i","e","r">>), Opt(Cat(<<Plus(Sp), Lit(<<"N","a","m","e">>)>>))>>), Lit(<<"D","i","s","t","r","i","b","u","t","o","r">>), Lit(<<"P","r","o","d","u","c","e","r">>)>>), Star(Sp), Set({":", "-"}), Star(Sp)>>),
    SubFirst(Cat(<<Bol, Plus(Set(SpaceSet \cup {"-", "<endash>", "<emdash>", ":", "*", "<u2022>", "<u25a0>", "<u25cf>", "<u25ba>", "<u27a4>", "<u25bc>", "<u25c6>", "<u25aa>"}))>>), Strip(value), CS), CI)

\* steps 4 and 5
CCC_cut(s) ==
  With(SubAll(Cat(<<Star(Sp), Lit(<<"(">>), Star(NSet({")"})), Alt(<<Lit(<<"A","B","N">>), Lit(<<"A","C","N">>), Lit(<<"F","o","r","m","e","r","l","y">>)>>), Star(Sp), Star(NSet({")"})), Lit(<<")">>)>>), s, CI), LAMBDA s4 :
    With(SearchG(company_noise_tokens, Empty, Empty, s4, CI), LAMBDA m :
      IF m.ok THEN Strip(Slice(s4, 0, m.st)) ELSE s4))

\* step 6
CCC_clip(s) ==
  With(MatchG(Bol, Cat(<<StarL(Dot), WordB, Alt(<<Cat(<<Lit(<<"P","T","Y">>), Plus(Sp), Lit(<<"L","T","D">>)>>), Lit(<<"P","/","L">>), Lit(<<"L","T","D">>), Lit(<<"L","I","M","I","T","E","D">>), Cat(<<Lit(<<"I","N","C">>), Opt(Lit(<<".">>))>>), Cat(<<Lit(<<"C","O","R","P">>), Opt(Lit(<<".">>))>>), Lit(<<"C","O","R","P","O","R","A","T","I","O","N">>), Lit(<<"G","M","B","H">>), Lit(<<"P","L","C">>), Lit(<<"B","V">>), Cat(<<Lit(<<"S">>), Opt(Lit(<<".">>)), Lit(<<"A">>), Opt(Lit(<<".">>))>>), Lit(<<"S",".","P",".","A",".">>), Lit(<<"L","L","C">>)>>)>>), Cat(<<WordB, Star(Dot), Eol>>), s, CI),
       LAMBDA sm : IF sm.ok THEN Strip(Group1(s, sm)) ELSE s)

\* utils.clean_company_candidate
clean_company_candidate(value) ==
  IF ~Truthy(value) THEN <<>>
  ELSE With(CCC_unprefixed(value), LAMBDA s :
    IF Match(Cat(<<Bol, Alt(<<Cat(<<Lit(<<"S","e","c","t","i","o","n">>), Star(Sp), Plus(Dig), WordB>>), Cat(<<Plus(Dig), Opt(Lit(<<".">>)), Star(Sp), Alt(<<Lit(<<"I","d","e","n","t","i","f","i","c","a","t","i","o","n">>), Lit(<<"H","a","z","a","r","d">>)>>), WordB>>)>>)>>), s, CI) THEN <<>>
    ELSE Strip(SubFirst(Cat(<<Plus(Set(SpaceSet \cup {",", ".", ";", ":"})), Eol>>), CCC_clip(CCC_cut(s)), CS)))

(***************************************************************************)
(* modules/field_extractor.py: extract_product_name                        *)
(***************************************************************************)
company_suffix == Cat(<<Bol, Alt(<<Cat(<<Lit(<<"P","t","y">>), Plus(Sp), Lit(<<"L","t","d">>)>>), Lit(<<"L","t","d">>), Cat(<<Lit(<<"I","n","c">>), Opt(Lit(<<".">>))>>), Cat(<<Lit(<<"C","o","r","p">>), Opt(Lit(<<".">>))>>), Lit(<<"C","o","m","p","a","n","y">>)>>), Eol>>)
phone_number   == Cat(<<WordB, Rep(Dig, 2, 4), Set(SpaceSet \cup {"-"}), Rep(Dig, 2, 4), Set(SpaceSet \cup {"-"}), Rep(Dig, 2, 4), WordB>>)
web_address    == Alt(<<Lit(<<"@">>), Lit(<<"w","w","w",".">>), Lit(<<".","c","o","m">>), Lit(<<".","o","r","g">>)>>)

\* Strategy 1: the value after an explicit product name label
FE_pn_label(section_text) ==
  With(extract_after_label(section_text, FL_product_name, "product_name"), LAMBDA found :
    With(IF Truthy(found) THEN strip_doubled_label_prefix(found) ELSE found, LAMBDA product_name :
      IF Truthy(product_name) /\ ~U_is_noise_text(product_name)
           /\ ~looks_like_numeric_code(product_name) /\ ~Match(company_suffix, product_name, CI)
      THEN product_name ELSE None))

\* Strategy 2: the split-table format; re.IGNORECASE is passed as `count`, so
\* the company tail is removed case-sensitively
FE_pn_split(section_text) ==
  With(SearchG(Cat(<<Lit(<<"P","r","o","d","u","c","t">>), Plus(Sp), Lit(<<"N","a","m","e">>), Star(Set({":", "\t", " "}))>>), Star(NSet({":", "\n"})), Empty, section_text, CI), LAMBDA product_name_match :
    IF ~product_name_match.ok THEN None
    ELSE With(strip_doubled_label_prefix(
                SubFirst(Cat(<<Plus(Sp), Alt(<<Cat(<<Lit(<<"P","t","y">>), Plus(Sp), Lit(<<"L","t","d">>)>>), Lit(<<"L","t","d">>), Cat(<<Lit(<<"I","n","c">>), Opt(Lit(<<".">>))>>), Cat(<<Lit(<<"C","o","r","p">>), Opt(Lit(<<".">>))>>)>>), Star(Dot), Eol>>),
                         Strip(Group1(section_text, product_name_match)), CS)), LAMBDA candidate :
      IF candidate # <<>> /\ ~U_is_noise_text(candidate) /\ Len(candidate) > 2
           /\ ~looks_like_numeric_code(candidate)
      THEN candidate ELSE None))

\* Strategy 2b at line idx (0-based): the previous non-empty line of a bare
\* "Product Name" label
FE_pn_above(lines, idx) ==
  IF ~FullMatch(Cat(<<Star(Sp), Lit(<<"P","r","o","d","u","c","t">>), Plus(Sp), Lit(<<"N","a","m","e">>), Star(Sp)>>), lines[idx + 1], CI)
       \/ \A j \in 1..idx : Strip(lines[j]) = <<>>
  THEN None
  ELSE With(Strip(lines[CHOOSE j \in 1..idx :
                          Strip(lines[j]) # <<>> /\ \A m \in (j + 1)..idx : Strip(lines[m]) = <<>>]),
            LAMBDA prev :
    IF Match(Cat(<<Bol, Plus(Dig), Lit(<<".">>)>>), prev, CS)
         \/ Search(Alt(<<Cat(<<Lit(<<"s","a","f","e","t","y">>), Plus(Sp), Lit(<<"d","a","t","a">>), Plus(Sp), Lit(<<"s","h","e","e","t">>)>>), Lit(<<"v","e","r","s","i","o","n">>), Cat(<<Lit(<<"m","s","d","s">>), Plus(Sp), Lit(<<"d","a","t","e">>)>>), Cat(<<Lit(<<"p","a","g","e">>), Plus(Sp), Plus(Dig)>>)>>), prev, CI)
    THEN None
    ELSE With(strip_doubled_label_prefix(prev), LAMBDA stripped :
      IF ~U_is_noise_text(stripped) /\ ~looks_like_numeric_code(stripped) THEN stripped ELSE None))

\* Strategy 3: whether a stripped line is kept as a meaningful line
FE_pn_meaningful(clean) ==
  /\ clean # <<>>
  /\ ~Match(Cat(<<Bol, Star(Sp), Opt(Cat(<<Lit(<<"s","e","c","t","i","o","n">>), Star(Sp)>>)), Lit(<<"1">>), Alt(<<Sp, Eol>>)>>), clean, CI)
  /\ ~Search(Alt(<<Lit(<<"i","d","e","n","t","i","f","i","c","a","t","i","o","n">>), Lit(<<"s","u","p","p","l","i","e","r">>), Lit(<<"m","a","n","u","f","a","c","t","u","r","e","r">>), Lit(<<"e","m","e","r","g","e","n","c","y">>), Lit(<<"c","o","n","t","a","c","t">>), Lit(<<"t","e","l","e","p","h","o","n","e">>), Lit(<<"f","a","x">>), Lit(<<"e","m","a","i","l">>), Cat(<<Lit(<<"w","e","b">>), Star(Sp), Lit(<<"s","i","t","e">>)>>), Lit(<<"d","e","t","a","i","l","s">>), Lit(<<"a","d","d","r","e","s","s">>), Lit(<<"s","y","n","o","n","y","m">>), Lit(<<"r","e","g","u","l","a","t","i","o","n">>)>>), clean, CI)
  /\ ~Search(Alt(<<Cat(<<Bol, Lit(<<"u","s","e","(","s",")">>)>>), Cat(<<Bol, Lit(<<"u","s","e">>), Plus(Sp), Lit(<<"o","f">>), Plus(Sp), Lit(<<"t","h","e">>), Plus(Sp), Lit(<<"s","u","b","s","t","a","n","c","e">>)>>), Cat(<<Lit(<<"u","s","e","s">>), Plus(Sp), Lit(<<"a","d","v","i","s","e","d">>), Plus(Sp), Lit(<<"a","g","a","i","n","s","t">>)>>), Cat(<<Lit(<<"o","f">>), Plus(Sp), Lit(<<"t","h","e">>), Plus(Sp), Lit(<<"c","h","e","m","i","c","a","l">>), Plus(Sp), Lit(<<"a","n","d">>), Plus(Sp), Lit(<<"r","e","s","t","r","i","c","t","i","o","n","s">>), Plus(Sp), Lit(<<"o","n">>), Plus(Sp), Lit(<<"u","s","e">>)>>)>>), clean, CI)
  /\ ~Search(Alt(<<Cat(<<Bol, Lit(<<"r","e","g","i","s","t","r","a","t","i","o","n">>), Plus(Sp), Lit(<<"n","o">>), Opt(Lit(<<".">>))>>), Cat(<<WordB, Lit(<<"r","e","g","i","s","t","r","a","t","i","o","n">>), Plus(Sp), Lit(<<"n","o",".">>), WordB>>)>>), clean, CI)
  /\ Head(clean) # "("
  /\ ~Search(Alt(<<Cat(<<Lit(<<"s","a","f","e","t","y">>), Plus(Sp), Lit(<<"d","a","t","a">>), Plus(Sp), Lit(<<"s","h","e","e","t">>)>>), Cat(<<Lit(<<"a","c","c","o","r","d","i","n","g">>), Plus(Sp), Lit(<<"t","o">>)>>)>>), clean, CI)
  /\ ~U_is_noise_text(clean)
  /\ ~Match(Cat(<<Bol, Star(Set(SpaceSet \cup {":", "-"})), Eol>>), clean, CS)
  /\ \A k \in 1..Len(ALL_FIELD_LABELS) :
       With(ALL_FIELD_LABELS[k], LAMBDA label : ~FullMatch(Cat(<<label, Star(Sp), Opt(Set({":", "-"}))>>), clean, CI))

\* Strategy 3: the candidate of a meaningful line, or None when it is passed over
FE_pn_candidate(line) ==
  With(SubFirst(Cat(<<Bol, Lit(<<"p","r","o","d","u","c","t">>), Plus(Sp), Lit(<<"i","d","e","n","t","i","f","i","e","r">>), Star(Sp), Opt(Set({":", "-"})), Star(Sp)>>),
                SubFirst(Cat(<<Bol, Plus(Dig), Opt(Cat(<<Lit(<<".">>), Plus(Dig)>>)), Star(Sp)>>), line, CS), CI), LAMBDA unnumbered :
    IF Search(Cat(<<Bol, Alt(<<Cat(<<Lit(<<"p","r","o","d","u","c","t">>), Plus(Sp), Lit(<<"n","a","m","e">>)>>), Cat(<<Lit(<<"s","d","s">>), Plus(Sp), Lit(<<"n","o">>), Opt(Lit(<<".">>))>>), Cat(<<Lit(<<"s","d","s">>), Plus(Sp), Lit(<<"n","u","m","b","e","r">>)>>)>>)>>), unnumbered, CI)
         \/ Match(Cat(<<Bol, Plus(Dig), Star(Sp), Set({"-", "<a-circ>", "<euro>", "<ldquo>"})>>), unnumbered, CS)
    THEN None
    ELSE With(strip_doubled_label_prefix(unnumbered), LAMBDA candidate :
      IF Search(Set(UpperSet \cup LowerSet \cup DigitSet), candidate, CS) /\ Len(candidate) > 3
           /\ ~looks_like_numeric_code(candidate)
           /\ ~Search(phone_number, candidate, CS)
           /\ ~Search(web_address, candidate, CI)
           /\ ~Match(company_suffix, candidate, CI)
      THEN candidate ELSE None))

FE_pn_line(line) ==
  With(Strip(line), LAMBDA clean : IF FE_pn_meaningful(clean) THEN FE_pn_candidate(clean) ELSE None)

\* Strategies 2b and 3
FE_pn_lines(lines) ==
  FirstOf([n \in 1..Len(lines) |-> FE_pn_above(lines, n - 1)]
            \o [n \in 1..Min(15, Len(lines)) |-> FE_pn_line(lines[n])], None)

\* field_extractor.extract_product_name
FE_extract_product_name(section_text) ==
  IF ~Truthy(section_text) THEN None
  ELSE FirstOf(<<FE_pn_label(section_text), FE_pn_split(section_text),
                 FE_pn_lines(SplitLines(section_text))>>, None)

(***************************************************************************)
(* modules/field_extractor.py: extract_manufacturer                        *)
(***************************************************************************)
\* a cleaned company candidate, when it is a usable value
FE_company(candidate) ==
  With(clean_company_candidate(candidate), LAMBDA cleaned :
    IF cleaned # <<>> /\ ~U_is_noise_text(cleaned) THEN cleaned ELSE None)

\* Strategy 1: the value after an explicit manufacturer label
FE_mf_label(section_text) ==
  With(extract_after_label(section_text, FL_manufacturer, "manufacturer"), LAMBDA found :
    With(IF Truthy(found) THEN clean_company_candidate(found) ELSE found, LAMBDA manufacturer :
      IF Truthy(manufacturer) /\ ~U_is_noise_text(manufacturer)
           /\ ~Match(Cat(<<Bol, Lit(<<"o","f">>), Plus(Sp), Lit(<<"t","h","e">>), Plus(Sp), Lit(<<"s","a","f","e","t","y">>), Plus(Sp), Lit(<<"d","a","t","a">>), Plus(Sp), Lit(<<"s","h","e","e","t">>)>>), manufacturer, CI)
           /\ ~Match(Cat(<<Bol, Lit(<<"o","r">>), Plus(Sp), Lit(<<"s","u","p","p","l","i","e","r">>), Opt(Lit(<<"'">>)), Lit(<<"s">>), Plus(Sp), Lit(<<"d","e","t","a","i","l","s">>), Eol>>), manufacturer, CI)
           /\ Len(manufacturer) > 2 /\ ~Match(Cat(<<Bol, Star(Set(SpaceSet \cup {":", "-"})), Eol>>), manufacturer, CS)
      THEN manufacturer ELSE None))

\* Strategy 1b: an inline "Details of the supplier ...: value"
FE_mf_inline(section_text) ==
  With(SearchG(Cat(<<Lit(<<"D","e","t","a","i","l","s">>), Plus(Sp), Lit(<<"o","f">>), Plus(Sp), Lit(<<"t","h","e">>), Plus(Sp), Lit(<<"s","u","p","p","l","i","e","r">>), StarL(NSet({"\n"})), Lit(<<":">>), Star(Sp)>>), Plus(Dot), Empty, section_text, CI),
       LAMBDA details_match :
    IF ~details_match.ok THEN None
    ELSE FE_company(Strip(SplitLines(Group1(section_text, details_match))[1])))

\* Strategy 2: one line of the supplier details
FE_mf_detail(line) ==
  With(Strip(line), LAMBDA clean :
    IF clean # <<>> /\ ~U_is_noise_text(clean) /\ Len(clean) > 3 /\ ~Search(phone_number, clean, CS)
    THEN FE_company(clean) ELSE None)

\* Strategy 2: the lines under "Details of the supplier"
FE_mf_details(section_text) ==
  With(SearchG(Cat(<<Lit(<<"D","e","t","a","i","l","s">>), Plus(Sp), Lit(<<"o","f">>), Plus(Sp), Lit(<<"t","h","e">>), Plus(Sp), Lit(<<"s","u","p","p","l","i","e","r">>), Star(NSet({"\n"})), Lit(<<"\n">>)>>), PlusL(NSet({":"})), Alt(<<Cat(<<Lit(<<"\n">>), Star(Sp), Set(UpperSet)>>), Cat(<<Lit(<<"\n">>), Star(Sp), Dig>>), Eol>>),
               section_text, CI), LAMBDA supplier_section :
    IF ~supplier_section.ok THEN None
    ELSE With(SplitLines(Strip(Group1(section_text, supplier_section))), LAMBDA lines :
      FirstOf([n \in 1..Len(lines) |-> FE_mf_detail(lines[n])], None)))

\* Strategy 3: a line with a company indicator; re.IGNORECASE is passed as
\* `count` to re.sub, so the company name is cut out case-sensitively
FE_mf_company_line(line) ==
  With(Strip(line), LAMBDA clean :
    IF clean = <<>>
         \/ ~Search(Cat(<<WordB, Alt(<<Cat(<<Lit(<<"P","t","y">>), Plus(Sp), Lit(<<"L","t","d">>)>>), Lit(<<"L","t","d">>), Cat(<<Lit(<<"I","n","c">>), Opt(Lit(<<".">>))>>), Cat(<<Lit(<<"C","o","r","p">>), Opt(Lit(<<".">>))>>), Lit(<<"C","o","m","p","a","n","y">>), Lit(<<"C","o","r","p","o","r","a","t","i","o","n">>)>>), WordB>>), clean, CI)
         \/ Search(Cat(<<Lit(<<"P","r","o","d","u","c","t">>), Plus(Sp), Lit(<<"N","a","m","e">>), Star(Sp), Lit(<<":">>)>>), clean, CI)
    THEN None
    ELSE With(ValOf(clean, MatchG(Cat(<<Bol, StarL(Dot)>>), Cat(<<Set(UpperSet), Star(NSet({":", "\n"})), Alt(<<Cat(<<Lit(<<"P","t","y">>), Plus(Sp), Lit(<<"L","t","d">>)>>), Lit(<<"L","t","d">>), Cat(<<Lit(<<"I","n","c">>), Opt(Lit(<<".">>))>>), Cat(<<Lit(<<"C","o","r","p">>), Opt(Lit(<<".">>))>>), Lit(<<"C","o","m","p","a","n","y">>), Lit(<<"C","o","r","p","o","r","a","t","i","o","n">>)>>), Star(NSet({":", "\n"}))>>), Cat(<<Star(Dot), Eol>>), clean, CS)),
              LAMBDA company_name :
      IF company_name.ok /\ company_name.val # clean
      THEN FE_company(Strip(company_name.val)) ELSE FE_company(clean)))

FE_mf_lines(lines) == FirstOf([n \in 1..Len(lines) |-> FE_mf_company_line(lines[n])], None)

\* field_extractor.extract_manufacturer
FE_extract_manufacturer(section_text) ==
  IF ~Truthy(section_text) THEN None
  ELSE FirstOf(<<FE_mf_label(section_text), FE_mf_inline(section_text),
                 FE_mf_details(section_text), FE_mf_lines(SplitLines(section_text))>>, None)

(***************************************************************************)
(* modules/field_extractor.py: extract_description                         *)
(***************************************************************************)
description_labels == <<
  Cat(<<Lit(<<"P","r","o","d","u","c","t">>), Plus(Sp), Lit(<<"d","e","s","c","r","i","p","t","i","o","n">>)>>), Lit(<<"D","e","s","c","r","i","p","t","i","o","n">>), Cat(<<Lit(<<"U","s","e">>), Plus(Sp), Lit(<<"o","f">>), Plus(Sp), Lit(<<"t","h","e">>), Plus(Sp), Lit(<<"s","u","b","s","t","a","n","c","e">>)>>), Cat(<<Lit(<<"U","s","e">>), Star(Sp), Lit(<<"(","s",")">>)>>),
  Cat(<<Lit(<<"U","s","e">>), WordB>>), Cat(<<Lit(<<"R","e","c","o","m","m","e","n","d","e","d">>), Plus(Sp), Lit(<<"u","s","e">>)>>), Cat(<<Lit(<<"I","n","t","e","n","d","e","d">>), Plus(Sp), Lit(<<"u","s","e">>)>>), Cat(<<Lit(<<"P","r","o","d","u","c","t">>), Plus(Sp), Lit(<<"u","s","e">>)>>),
  Cat(<<Lit(<<"R","e","l","e","v","a","n","t">>), Plus(Sp), Lit(<<"i","d","e","n","t","i","f","i","e","d">>), Plus(Sp), Lit(<<"u","s","e","s">>)>>), Cat(<<Lit(<<"I","d","e","n","t","i","f","i","e","d">>), Plus(Sp), Lit(<<"u","s","e","s">>)>>), Lit(<<"A","p","p","l","i","c","a","t","i","o","n">>) >>

\* the four clean-ups of a description; re.IGNORECASE is passed as `count` in
\* the first three, which match case-sensitively
FE_description_clean(description) ==
  SubFirst(Cat(<<Bol, Plus(Set(SpaceSet \cup {":", ";", "-"}))>>),
    SubFirst(Cat(<<Bol, Lit(<<"/","M","i","x","t","u","r","e">>), Star(Sp), Lit(<<":">>), Star(Sp)>>),
      SubFirst(Cat(<<Bol, Lit(<<"o","f">>), Plus(Sp), Lit(<<"t","h","e">>), Plus(Sp), Lit(<<"s","u","b","s","t","a","n","c","e">>), Plus(Sp), Lit(<<"o","r">>), Plus(Sp), Lit(<<"m","i","x","t","u","r","e">>), Plus(Sp), Lit(<<"a","n","d">>), Plus(Sp), Lit(<<"u","s","e","s">>), Plus(Sp), Lit(<<"a","d","v","i","s","e","d">>), Plus(Sp), Lit(<<"a","g","a","i","n","s","t">>), Star(Sp)>>),
        SubFirst(Cat(<<Bol, Lit(<<"o","f">>), Plus(Sp), Lit(<<"t","h","e">>), Plus(Sp), Alt(<<Lit(<<"s","u","b","s","t","a","n","c","e">>), Lit(<<"c","h","e","m","i","c","a","l">>)>>), Opt(Alt(<<Cat(<<Star(Sp), Lit(<<"/">>), Star(Sp), Lit(<<"m","i","x","t","u","r","e">>)>>), Cat(<<Plus(Sp), Lit(<<"o","r">>), Plus(Sp), Lit(<<"m","i","x","t","u","r","e">>)>>)>>)), Opt(Cat(<<Plus(Sp), Lit(<<"a","n","d">>), Plus(Sp), Lit(<<"u","s","e","s">>), Plus(Sp), Lit(<<"a","d","v","i","s","e","d">>), Plus(Sp), Lit(<<"a","g","a","i","n","s","t">>)>>)), Star(Sp), Star(Set({":", "-"})), Star(Sp)>>),
                 description, CS), CS), CS), CS)

\* field_extractor.extract_description
FE_extract_description(section_text) ==
  IF ~Truthy(section_text) THEN None
  ELSE With(extract_after_label(section_text, description_labels, "description"), LAMBDA description :
    IF Truthy(description) /\ ~U_is_noise_text(description)
    THEN With(Strip(FE_description_clean(description)), LAMBDA cleaned :
           IF cleaned # <<>> THEN cleaned ELSE None)
    ELSE None)

(***************************************************************************)
(* modules/section_1.py                                                    *)
(***************************************************************************)
\* _is_header_continuation
S1_is_header_continuation(text) == AnyFullMatch(header_continuations, Strip(text), CI)

\* value if value and not _is_header_continuation(value) else None
S1_guard(value) == IF Truthy(value) /\ ~S1_is_header_continuation(value) THEN value ELSE None

S1_product_name(section1_text) == S1_guard(FE_extract_product_name(section1_text))
S1_manufacturer(section1_text) == S1_guard(FE_extract_manufacturer(section1_text))
S1_description(section1_text)  == S1_guard(FE_extract_description(section1_text))

(***************************************************************************)
(* sds_extractor.py: dedup_repeated_phrase, strip_leading_label_prefix     *)
(***************************************************************************)
\* re.match(r"^(?P<p>.+?)\s+(?P=p)$", cleaned) on a text whose white space is
\* single blanks: the two halves around the middle blank are equal
RepeatedPhrase(cleaned, h) ==
  /\ Len(cleaned) = 2 * h + 1 /\ h >= 1
  /\ cleaned[h + 1] = " "
  /\ SubSeq(cleaned, 1, h) = SubSeq(cleaned, h + 2, Len(cleaned))

dedup_repeated_phrase(value) ==
  IF ~Truthy(value) THEN value
  ELSE With(Strip(CollapseSpace(value)), LAMBDA cleaned :
    IF RepeatedPhrase(cleaned, Len(cleaned) \div 2)
    THEN SubSeq(cleaned, 1, Len(cleaned) \div 2) ELSE cleaned)

strip_leading_label_prefix(value) ==
  IF ~Truthy(value) THEN value
  ELSE Strip(SubFirst(Cat(<<Bol, Alt(<<Lit(<<"m","a","n","u","f","a","c","t","u","r","e","r">>), Cat(<<Lit(<<"s","u","p","p","l","i","e","r">>), Plus(Sp), Lit(<<"n","a","m","e">>)>>), Lit(<<"s","u","p","p","l","i","e","r">>), Cat(<<Lit(<<"c","o","m","p","a","n","y">>), Plus(Sp), Lit(<<"n","a","m","e">>), Plus(Sp), Lit(<<"o","f">>), Plus(Sp), Lit(<<"s","u","p","p","l","i","e","r">>)>>), Lit(<<"p","r","o","d","u","c","e","r">>), Cat(<<Lit(<<"c","o","m","p","a","n","y">>), Plus(Sp), Lit(<<"n","a","m","e">>)>>), Cat(<<Lit(<<"r","e","g","i","s","t","e","r","e","d">>), Plus(Sp), Lit(<<"c","o","m","p","a","n","y">>), Plus(Sp), Lit(<<"n","a","m","e">>)>>), Lit(<<"d","i","s","t","r","i","b","u","t","o","r">>)>>), Star(Sp), Opt(Set({":", "-"})), Star(Sp)>>),
         Strip(SubFirst(Cat(<<Bol, Lit(<<"c","o","m","m","e","r","c","i","a","l">>), Plus(Sp), Lit(<<"p","r","o","d","u","c","t">>), Plus(Sp), Lit(<<"n","a","m","e">>), Star(Sp), Opt(Set({":", "-"})), Star(Sp)>>),
           Strip(SubFirst(Cat(<<Bol, Lit(<<"t","r","a","d","e">>), Plus(Sp), Lit(<<"n","a","m","e">>), Star(Sp), Opt(Set({":", "-"})), Star(Sp)>>),
             Strip(SubFirst(Cat(<<Bol, Lit(<<"p","r","o","d","u","c","t">>), Plus(Sp), Lit(<<"n","a","m","e">>), Star(Sp), Opt(Set({":", "-"})), Star(Sp)>>),
               Strip(SubFirst(Cat(<<Bol, Lit(<<"p","r","o","d","u","c","t">>), Plus(Sp), Lit(<<"i","d","e","n","t","i","f","i","e","r">>), Star(Sp), Opt(Set({":", "-"})), Star(Sp)>>), value, CI)), CI)), CI)), CI)), CI))

\* `cleaned or None` of the value without its leading label and repetition
Cleaned(value) == OrElse(dedup_repeated_phrase(strip_leading_label_prefix(value)), None)

\* any(tok in lowered for tok in toks)
AnyIn(toks, lowered) == \E k \in 1..Len(toks) : Contains(lowered, toks[k])

(***************************************************************************)
(* sds_extractor.py: extract_product_name                                  *)
(***************************************************************************)
product_name_labels == <<
  Cat(<<Lit(<<"P","r","o","d","u","c","t">>), Plus(Sp), Lit(<<"i","d","e","n","t","i","f","i","e","r">>)>>), Cat(<<Lit(<<"P","r","o","d","u","c","t">>), Plus(Sp), Lit(<<"n","a","m","e">>)>>), Cat(<<Lit(<<"T","r","a","d","e">>), Plus(Sp), Lit(<<"n","a","m","e">>)>>), Cat(<<Lit(<<"C","o","m","m","e","r","c","i","a","l">>), Plus(Sp), Lit(<<"p","r","o","d","u","c","t">>), Plus(Sp), Lit(<<"n","a","m","e">>)>>) >>

obvious_labels == Cat(<<Bol, Alt(<<Cat(<<Lit(<<"A","l","t","e","r","n","a","t","i","v","e">>), Plus(Sp), Lit(<<"n","u","m","b","e","r","(","s",")">>)>>), Cat(<<Lit(<<"O","t","h","e","r">>), Plus(Sp), Lit(<<"N","a","m","e","(","s",")">>)>>), Cat(<<Lit(<<"F","o","r","m","u","l","a","t","i","o","n">>), Plus(Sp), Lit(<<"#">>)>>), Cat(<<Lit(<<"R","e","g","i","s","t","r","a","t","i","o","n">>), Plus(Sp), Lit(<<"n","o">>), Opt(Lit(<<".">>)), Star(Sp), Opt(Lit(<<"<endash>">>)), Star(Sp), Lit(<<"U","S">>), Opt(Lit(<<":">>))>>), Lit(<<"G","r","o","u","p">>)>>), Eol>>)
date_header    == Cat(<<Bol, Alt(<<Cat(<<Lit(<<"m","s","d","s">>), Plus(Sp), Lit(<<"d","a","t","e">>)>>), Cat(<<Lit(<<"d","a","t","e">>), Plus(Sp), Lit(<<"o","f">>), Plus(Sp), Lit(<<"i","s","s","u","e">>)>>), Cat(<<Lit(<<"r","e","v","i","s","i","o","n">>), Plus(Sp), Lit(<<"d","a","t","e">>)>>), Cat(<<Lit(<<"v","e","r","s","i","o","n">>), Plus(Sp), Lit(<<"d","a","t","e">>)>>)>>), WordB>>)

\* Strategy 1: the value returned, or Skip when Strategy 2 is tried
PN_label(section1_text) ==
  With(extract_field_value(<<>>, product_name_labels, section1_text), LAMBDA found :
    IF ~Truthy(found) \/ is_noise_text(found)
         \/ Match(Cat(<<Bol, Alt(<<Cat(<<Lit(<<"P","t","y">>), Plus(Sp), Lit(<<"L","t","d">>)>>), Lit(<<"L","t","d">>), Cat(<<Lit(<<"I","n","c">>), Opt(Lit(<<".">>))>>), Cat(<<Lit(<<"C","o","r","p">>), Opt(Lit(<<".">>))>>), Lit(<<"C","o","m","p","a","n","y">>), Cat(<<Lit(<<"A","l","t","e","r","n","a","t","i","v","e">>), Plus(Sp), Lit(<<"n","u","m","b","e","r","(","s",")">>)>>), Cat(<<Lit(<<"O","t","h","e","r">>), Plus(Sp), Lit(<<"N","a","m","e","(","s",")">>)>>), Cat(<<Lit(<<"F","o","r","m","u","l","a","t","i","o","n">>), Plus(Sp), Lit(<<"#">>)>>), Cat(<<Lit(<<"R","e","g","i","s","t","r","a","t","i","o","n">>), Plus(Sp), Lit(<<"n","o">>), Opt(Lit(<<".">>)), Star(Sp), Opt(Lit(<<"<endash>">>)), Star(Sp), Lit(<<"U","S">>), Opt(Lit(<<":">>))>>), Lit(<<"G","r","o","u","p">>)>>), Eol>>), found, CI)
    THEN Skip
    ELSE With(LowerStr(found), LAMBDA lowered :
      IF FullMatch(Alt(<<Cat(<<Lit(<<"p","r","o","d","u","c","t">>), Plus(Sp), Lit(<<"i","d","e","n","t","i","f","i","e","r">>)>>), Cat(<<Lit(<<"p","r","o","d","u","c","t">>), Plus(Sp), Lit(<<"n","a","m","e">>)>>), Cat(<<Lit(<<"t","r","a","d","e">>), Plus(Sp), Lit(<<"n","a","m","e">>)>>), Cat(<<Lit(<<"c","o","m","m","e","r","c","i","a","l">>), Plus(Sp), Lit(<<"p","r","o","d","u","c","t">>), Plus(Sp), Lit(<<"n","a","m","e">>)>>)>>), lowered, CS)
           \/ AnyIn(<<<<"p","r","o","p","e","r"," ","s","h","i","p","p","i","n","g"," ","n","a","m","e">>, <<"c","h","e","m","i","c","a","l"," ","f","o","r","m","u","l","a">>, <<"u","n"," ","n","u","m","b","e","r">>>>, lowered)
           \/ lowered \in {<<"n","o","t"," ","a","p","p","l","i","c","a","b","l","e">>, <<"n","/","a">>, <<"n","a">>}
      THEN Skip ELSE Cleaned(found)))

\* Strategy 2, one of the first 15 lines: the value returned, or Skip
PN_line(raw_line) ==
  With(Strip(raw_line), LAMBDA line : With(LowerStr(Strip(raw_line)), LAMBDA lowered :
    IF \/ line = <<>>
       \/ Match(Alt(<<Cat(<<Bol, Plus(Dig), Lit(<<".">>)>>), Cat(<<WordB, Lit(<<"s","e","c","t","i","o","n">>), WordB>>), Cat(<<WordB, Lit(<<"i","d","e","n","t","i","f","i","c","a","t","i","o","n">>), WordB>>)>>), line, CI)
       \/ AnyIn(<<<<"s","u","p","p","l","i","e","r">>, <<"e","m","e","r","g","e","n","c","y">>, <<"t","e","l","e","p","h","o","n","e">>, <<"c","o","n","t","a","c","t">>, <<"d","e","t","a","i","l","s">>>>, lowered)
       \/ Match(Cat(<<Bol, Lit(<<"s","y","n","o","n","y","m","(","s",")">>)>>), line, CI)
       \/ Match(Cat(<<Bol, Alt(<<Lit(<<"u","s","e","(","s",")">>), Lit(<<"u","s","e"," ","o","f"," ","t","h","e"," ","s","u","b","s","t","a","n","c","e">>), Lit(<<"r","e","c","o","m","m","e","n","d","e","d"," ","u","s","e">>)>>)>>), line, CI)
       \/ Match(Cat(<<Bol, Alt(<<Lit(<<"m","s","d","s">>), Lit(<<"s","d","s">>)>>), Plus(Sp), Lit(<<"d","a","t","e">>), WordB>>), line, CI)
       \/ is_noise_text(line)
       \/ ~(Search(Set(UpperSet \cup LowerSet \cup DigitSet), line, CS) /\ 3 <= Len(line) /\ Len(line) <= 100)
       \/ Search(web_address, line, CI)
       \/ Match(Cat(<<Bol, Plus(Set(SpaceSet \cup {":", "-"})), Eol>>), line, CS)
       \/ Match(obvious_labels, line, CI)
       \/ AnyIn(<<<<"p","r","o","p","e","r"," ","s","h","i","p","p","i","n","g"," ","n","a","m","e">>, <<"s","h","i","p","p","i","n","g"," ","n","a","m","e">>, <<"u","n"," ","n","u","m","b","e","r">>, <<"t","r","a","n","s","p","o","r","t">>,
                  <<"h","a","z","c","h","e","m">>, <<"e","p","g">>, <<"c","h","e","m","i","c","a","l"," ","f","o","r","m","u","l","a">>, <<"n","o","t"," ","a","p","p","l","i","c","a","b","l","e">>>>, lowered)
       \/ Match(date_header, lowered, CI)
    THEN Skip ELSE Cleaned(line)))

PN_lines(lines) ==
  With(FirstOf([n \in 1..Min(15, Len(lines)) |-> PN_line(lines[n])], Skip), LAMBDA value :
    IF value = Skip THEN None ELSE value)

\* sds_extractor.extract_product_name
extract_product_name(section1_text) ==
  With(S1_product_name(section1_text), LAMBDA mod_val :
    IF Truthy(mod_val) THEN mod_val
    ELSE With(PN_label(section1_text), LAMBDA labelled :
      IF labelled # Skip THEN labelled ELSE PN_lines(Split(section1_text))))

(***************************************************************************)
(* sds_extractor.py: extract_manufacturer, extract_description             *)
(***************************************************************************)
manufacturer_labels == <<
  Lit(<<"M","a","n","u","f","a","c","t","u","r","e","r">>), Cat(<<Lit(<<"S","u","p","p","l","i","e","r">>), Plus(Sp), Lit(<<"N","a","m","e">>)>>), Lit(<<"S","u","p","p","l","i","e","r">>), Cat(<<Lit(<<"C","o","m","p","a","n","y">>), Plus(Sp), Lit(<<"n","a","m","e">>), Plus(Sp), Lit(<<"o","f">>), Plus(Sp), Lit(<<"s","u","p","p","l","i","e","r">>)>>),
  Lit(<<"P","r","o","d","u","c","e","r">>), Cat(<<Lit(<<"C","o","m","p","a","n","y">>), Plus(Sp), Lit(<<"n","a","m","e">>)>>), Cat(<<Lit(<<"R","e","g","i","s","t","e","r","e","d">>), Plus(Sp), Lit(<<"c","o","m","p","a","n","y">>), Plus(Sp), Lit(<<"n","a","m","e">>)>>), Lit(<<"D","i","s","t","r","i","b","u","t","o","r">>) >>

\* Strategy 1: the value returned, or Skip when Strategy 2 is tried
MF_label(section1_text) ==
  With(extract_field_value(<<>>, manufacturer_labels, section1_text), LAMBDA found :
    IF ~Truthy(found) \/ is_noise_text(found)
         \/ Match(Cat(<<Bol, Alt(<<Cat(<<Lit(<<"o","f">>), Plus(Sp), Lit(<<"t","h","e">>), Plus(Sp), Lit(<<"s","a","f","e","t","y">>), Plus(Sp), Lit(<<"d","a","t","a">>), Plus(Sp), Lit(<<"s","h","e","e","t">>)>>), Cat(<<Lit(<<"E","m","e","r","g","e","n","c","y">>), Plus(Sp), Lit(<<"T","e","l","e","p","h","o","n","e">>), Plus(Sp), Lit(<<"N","u","m","b","e","r">>)>>), Cat(<<Lit(<<"C","o","m","p","a","n","y">>), Opt(Set({":", "."})), Star(Sp), Eol>>), Cat(<<Lit(<<"C","o","m","p","a","n","y">>), Plus(Sp), Lit(<<"N","o">>), Opt(Lit(<<".">>)), Opt(Set({":", "."})), Star(Sp), Eol>>)>>), Eol>>), found, CI)
    THEN Skip ELSE Cleaned(found))

\* Strategy 2, one line of the supplier details: the value returned, or Skip
MF_detail(raw_line) ==
  With(Strip(raw_line), LAMBDA line :
    IF \/ line = <<>> \/ is_noise_text(line) \/ Len(line) <= 3
       \/ Search(phone_number, line, CS)
       \/ Match(Cat(<<Bol, Alt(<<Cat(<<Lit(<<"E","m","e","r","g","e","n","c","y">>), Plus(Sp), Lit(<<"T","e","l","e","p","h","o","n","e">>), Plus(Sp), Lit(<<"N","u","m","b","e","r">>)>>), Cat(<<Lit(<<"C","o","m","p","a","n","y">>), Opt(Set({":", "."})), Star(Sp), Eol>>)>>)>>), line, CI)
       \/ Search(Alt(<<Cat(<<Lit(<<"s","a","f","e","t","y">>), Plus(Sp), Lit(<<"d","a","t","a">>), Plus(Sp), Lit(<<"s","h","e","e","t">>)>>), Cat(<<Bol, Lit(<<"s","e","c","t","i","o","n">>), WordB>>), Cat(<<Bol, Lit(<<"p","a","g","e">>), WordB>>)>>), line, CI)
    THEN Skip ELSE Cleaned(line))

\* Strategy 2: the lines under "Details of the supplier"
MF_details(section1_text) ==
  With(SearchG(Cat(<<Lit(<<"D","e","t","a","i","l","s">>), Plus(Sp), Lit(<<"o","f">>), Plus(Sp), Lit(<<"t","h","e">>), Plus(Sp), Lit(<<"s","u","p","p","l","i","e","r">>), Star(NSet({"\n"})), Lit(<<"\n">>)>>), RepL(DotNL, 1, 500), Alt(<<Cat(<<Lit(<<"\n">>), Star(Sp), Set(UpperSet), Set(LowerSet)>>), Cat(<<Lit(<<"\n">>), Star(Sp), Dig>>), Eol>>),
               section1_text, CI), LAMBDA supplier_match :
    IF ~supplier_match.ok THEN None
    ELSE With(Split(Group1(section1_text, supplier_match)), LAMBDA lines :
      With(FirstOf([n \in 1..Len(lines) |-> MF_detail(lines[n])], Skip), LAMBDA value :
        IF value = Skip THEN None ELSE value)))

\* sds_extractor.extract_manufacturer
extract_manufacturer(section1_text) ==
  With(S1_manufacturer(section1_text), LAMBDA mod_val :
    IF Truthy(mod_val) THEN mod_val
    ELSE With(MF_label(section1_text), LAMBDA labelled :
      IF labelled # Skip THEN labelled ELSE MF_details(section1_text)))

\* sds_extractor.extract_description; the modular extractor raises nothing on
\* a text, so the legacy fallback of the except branch is never taken
extract_description(section1_text) == S1_description(section1_text)

global_labels ==
  manufacturer_labels \o << Cat(<<Lit(<<"M","a","n","u","f","a","c","t","u","r","e","r">>), Star(Sp), Lit(<<"/">>), Star(Sp), Lit(<<"S","u","p","p","l","i","e","r">>)>>), Cat(<<Lit(<<"D","e","t","a","i","l","s">>), Plus(Sp), Lit(<<"o","f">>), Plus(Sp), Lit(<<"t","h","e">>), Plus(Sp), Lit(<<"s","u","p","p","l","i","e","r">>)>>) >>

\* "\n".join(full_text.splitlines()[:n])
FirstLines(full_text, n) ==
  With(SplitLines(full_text), LAMBDA lines : Join(SubSeq(lines, 1, Min(n, Len(lines)))))

\* sds_extractor.extract_manufacturer_global
extract_manufacturer_global(full_text) ==
  IF ~Truthy(full_text) THEN None
  ELSE With(FirstLines(full_text, 60), LAMBDA head :
    With(extract_field_value(head, global_labels, head), LAMBDA val :
      IF Truthy(val) /\ ~is_noise_text(val)
      THEN strip_leading_label_prefix(dedup_repeated_phrase(val)) ELSE None))

(***************************************************************************)
(* sds_extractor.py: parse_pdf, the Section 1 fields (lines 733-769)       *)
(***************************************************************************)
\* lines 734-742
parse_product_name(text, section1) ==
  With(FirstLines(text, 15), LAMBDA prefix :
    With(OrElse(extract_product_name(section1), extract_product_name(prefix)), LAMBDA product_name :
      IF Truthy(product_name) /\ Match(date_header, product_name, CI)
      THEN With(extract_product_name(prefix), LAMBDA alt :
             IF Truthy(alt) /\ ~Match(date_header, alt, CI) THEN alt ELSE product_name)
      ELSE product_name))

\* lines 750-754 left out: the manufacturer is reported as found
MF_uncut(manufacturer) == manufacturer

\* lines 750-754: the final clean-up of a manufacturer
MF_cut(manufacturer) ==
  IF ~Truthy(manufacturer) THEN manufacturer
  ELSE With(SearchG(Cat(<<WordB, Alt(<<Cat(<<Lit(<<"P","r","o","d","u","c","t">>), Plus(Sp), Lit(<<"N","a","m","e">>)>>), Cat(<<Lit(<<"T","r","a","d","e">>), Plus(Sp), Lit(<<"n","a","m","e">>)>>)>>), WordB>>), Empty, Empty, manufacturer, CI), LAMBDA m :
    strip_leading_label_prefix(dedup_repeated_phrase(
      Strip(IF m.ok THEN Slice(manufacturer, 0, m.st) ELSE manufacturer))))

\* lines 746-754
parse_manufacturer(text, section1) ==
  MF_cut(OrElse(extract_manufacturer(section1), extract_manufacturer_global(text)))

\* line 758
parse_description(section1) == extract_description(section1)

product_use_labels == <<
  Cat(<<Lit(<<"R","e","c","o","m","m","e","n","d","e","d">>), Plus(Sp), Lit(<<"u","s","e">>)>>), Cat(<<Lit(<<"I","n","t","e","n","d","e","d">>), Plus(Sp), Lit(<<"u","s","e">>)>>), Cat(<<Lit(<<"U","s","e">>), Plus(Sp), Lit(<<"o","f">>), Plus(Sp), Lit(<<"t","h","e">>), Plus(Sp), Lit(<<"s","u","b","s","t","a","n","c","e">>)>>), Cat(<<Lit(<<"P","r","o","d","u","c","t">>), Plus(Sp), Lit(<<"u","s","e">>)>>),
  Cat(<<Lit(<<"R","e","l","e","v","a","n","t">>), Plus(Sp), Lit(<<"i","d","e","n","t","i","f","i","e","d">>), Plus(Sp), Lit(<<"u","s","e","s">>)>>) >>

\* lines 762-768
parse_product_use(text, section1) == extract_field_value(text, product_use_labels, section1)

\* lines 828-834: whether the final validation rejects the value of a field
Rejected(field_name, val) ==
  /\ Truthy(val)
  /\ \/ is_noise_text(val)
     \/ FullMatch(Cat(<<Alt(<<Cat(<<Lit(<<"p","r","o","d","u","c","t">>), Plus(Sp), Lit(<<"i","d","e","n","t","i","f","i","e","r">>)>>), Cat(<<Lit(<<"p","r","o","d","u","c","t">>), Plus(Sp), Lit(<<"n","a","m","e">>)>>), Cat(<<Lit(<<"t","r","a","d","e">>), Plus(Sp), Lit(<<"n","a","m","e">>)>>), Cat(<<Lit(<<"c","o","m","m","e","r","c","i","a","l">>), Plus(Sp), Lit(<<"p","r","o","d","u","c","t">>), Plus(Sp), Lit(<<"n","a","m","e">>)>>)>>), Star(Sp), Eol>>), Strip(val), CI)
     \/ field_name = "product_name" /\ Match(Cat(<<Bol, Star(Sp), Plus(Dig), Opt(Lit(<<".">>)), Star(Sp), Alt(<<Lit(<<"i","d","e","n","t","i","f","i","c","a","t","i","o","n">>), Lit(<<"h","a","z","a","r","d">>)>>), WordB>>), val, CI)

\* the entry of a field after the final validation
Swept(field_name, entry) ==
  IF Rejected(field_name, entry.value) THEN [value |-> None, confidence |-> 0] ELSE entry

(***************************************************************************)
(* Calendar dates: datetime.date, strptime, strftime, dateutil             *)
(***************************************************************************)
\* a date is <<year, month, day>>; NoDate stands for a ValueError
NoDate == <<>>

LeapYear(y) == y % 4 = 0 /\ (y % 100 # 0 \/ y % 400 = 0)
DaysIn(y, m) ==
  IF m = 2 THEN (IF LeapYear(y) THEN 29 ELSE 28) ELSE IF m \in {4, 6, 9, 11} THEN 30 ELSE 31

\* date(y, m, d), or NoDate when there is no such day
DateOf(y, m, d) ==
  IF y >= 1 /\ y <= 9999 /\ m >= 1 /\ m <= 12 /\ d >= 1 /\ d <= DaysIn(y, m)
  THEN <<y, m, d>> ELSE NoDate

\* a <= b on dates
NotAfter(a, b) ==
  a[1] < b[1] \/ (a[1] = b[1] /\ (a[2] < b[2] \/ (a[2] = b[2] /\ a[3] <= b[3])))

\* the decimal digits of n < 10000, in w places
Padded(n, w) == [k \in 1..w |-> DigitSeq[((n \div (10 ^ (w - k))) % 10) + 1]]

\* d.strftime('%Y-%m-%d'); the C library does not pad the year
strftime(d) == LStrip(Padded(d[1], 4), {"0"}) \o <<"-">> \o Padded(d[2], 2) \o <<"-">> \o Padded(d[3], 2)

\* the names by which a month is known: to %b, to %B, and to dateutil
MonthAbbr == << <<"j","a","n">>, <<"f","e","b">>, <<"m","a","r">>, <<"a","p","r">>, <<"m","a","y">>, <<"j","u","n">>,
                <<"j","u","l">>, <<"a","u","g">>, <<"s","e","p">>, <<"o","c","t">>, <<"n","o","v">>, <<"d","e","c">> >>
MonthFull == << <<"j","a","n","u","a","r","y">>, <<"f","e","b","r","u","a","r","y">>, <<"m","a","r","c","h">>, <<"a","p","r","i","l">>, <<"m","a","y">>, <<"j","u","n","e">>,
                <<"j","u","l","y">>, <<"a","u","g","u","s","t">>, <<"s","e","p","t","e","m","b","e","r">>, <<"o","c","t","o","b","e","r">>, <<"n","o","v","e","m","b","e","r">>, <<"d","e","c","e","m","b","e","r">> >>

\* the number of the month that `word` names in `names`, or 0
MonthIn(names, word) ==
  IF \E k \in 1..12 : names[k] = LowerStr(word)
  THEN CHOOSE k \in 1..12 : names[k] = LowerStr(word) ELSE 0

\* dateutil's parserinfo.month: abbreviation, "sept", or full name
MonthNamed(word) ==
  IF LowerStr(word) = <<"s","e","p","t">> THEN 9
  ELSE IF MonthIn(MonthAbbr, word) > 0 THEN MonthIn(MonthAbbr, word) ELSE MonthIn(MonthFull, word)

\* s.split(ch)
SplitOn(s, ch) == Pieces(s, SelectSeq(Indices(Len(s)), LAMBDA k : s[k] = ch))

\* the value of one strptime directive on its part of the text, or -1
Directive(d, part) ==
  CASE d = "d" -> IF FullMatch(Alt(<<Cat(<<Lit(<<"3">>), Set({"0", "1"})>>), Cat(<<Set({"1", "2"}), Dig>>), Cat(<<Lit(<<"0">>), Set({"1", "2", "3", "4", "5", "6", "7", "8", "9"})>>), Set({"1", "2", "3", "4", "5", "6", "7", "8", "9"})>>), part, CS) THEN IntOf(part) ELSE -1
    [] d = "m" -> IF FullMatch(Alt(<<Cat(<<Lit(<<"1">>), Set({"0", "1", "2"})>>), Cat(<<Lit(<<"0">>), Set({"1", "2", "3", "4", "5", "6", "7", "8", "9"})>>), Set({"1", "2", "3", "4", "5", "6", "7", "8", "9"})>>), part, CS) THEN IntOf(part) ELSE -1
    [] d = "Y" -> IF FullMatch(Cat(<<Dig, Dig, Dig, Dig>>), part, CS) THEN IntOf(part) ELSE -1
    [] d = "y" -> IF FullMatch(Cat(<<Dig, Dig>>), part, CS)
                  THEN (IF IntOf(part) <= 68 THEN 2000 + IntOf(part) ELSE 1900 + IntOf(part)) ELSE -1
    [] d = "b" -> IF MonthIn(MonthAbbr, part) > 0 THEN MonthIn(MonthAbbr, part) ELSE -1
    [] d = "B" -> IF MonthIn(MonthFull, part) > 0 THEN MonthIn(MonthFull, part) ELSE -1

\* a format of three directives with one separator between them, e.g.
\* '%d/%m/%Y' is Fmt("d", "/", "m", "Y"); a blank in a format stands for \s+
Fmt(a, sep, b, c) == [sep |-> sep, ds |-> <<a, b, c>>]

\* which directive of a format gives the year, the month, the day
Field(fmt, which) == CHOOSE k \in 1..3 : fmt.ds[k] \in which

\* datetime.strptime(s, fmt).date(), or NoDate for a ValueError
strptime(s, fmt) ==
  With(IF fmt.sep = " " THEN Words(s) ELSE SplitOn(s, fmt.sep), LAMBDA parts :
    IF Len(parts) # 3 \/ (fmt.sep = " " /\ s # Strip(s)) THEN NoDate
    ELSE With([k \in 1..3 |-> Directive(fmt.ds[k], parts[k])], LAMBDA v :
      IF \E k \in 1..3 : v[k] < 0 THEN NoDate
      ELSE DateOf(v[Field(fmt, {"Y", "y"})], v[Field(fmt, {"m", "b", "B"})], v[Field(fmt, {"d"})])))

\* dateutil's lexer on a date as DATE_PATTERN captures it: a run of digits, a
\* run of letters, and every other character by itself
Kind(c) == IF c \in DigitSet THEN "0" ELSE IF c \in AlphaSet THEN "a" ELSE "-"
TokenStarts(s) ==
  SelectSeq(Indices(Len(s)), LAMBDA k :
    Kind(s[k]) = "-" \/ k = 1 \/ Kind(s[k - 1]) # Kind(s[k]))
TokenEnds(s) ==
  SelectSeq(Indices(Len(s)), LAMBDA k :
    Kind(s[k]) = "-" \/ k = Len(s) \/ Kind(s[k + 1]) # Kind(s[k]))
Tokens(s) ==
  With(TokenStarts(s), LAMBDA a : With(TokenEnds(s), LAMBDA b :
    [n \in 1..Len(a) |-> SubSeq(s, a[n], b[n])]))

\* the lexer reads digits around a comma or a point as one decimal number
Glued(s) ==
  \E k \in 2..(Len(s) - 1) : s[k] \in {",", "."} /\ s[k - 1] \in DigitSet /\ s[k + 1] \in DigitSet

\* dateutil's _ymd.append: the value of a token and its label, "M" for a
\* month name, "?" for another word, "Y" for a year: a number of more than
\* two digits when it is appended as text (in a chain d-m-y), a number above
\* 100 when it is appended as a number
Ymd(token, as_text) ==
  IF token[1] \in DigitSet
  THEN [n |-> IntOf(token),
        label |-> IF (as_text /\ Len(token) > 2) \/ (~as_text /\ IntOf(token) > 100) THEN "Y" ELSE ""]
  ELSE [n |-> MonthNamed(token), label |-> IF MonthNamed(token) > 0 THEN "M" ELSE "?"]

\* where the label is found among three values, or 0
Labelled(v, label) ==
  IF \E k \in 1..3 : v[k].label = label THEN CHOOSE k \in 1..3 : v[k].label = label ELSE 0

\* dateutil's _ymd.resolve_ymd(yearfirst=False, dayfirst=True) of three
\* values as <<year, month, day>>; y and m are where a year and a month are
\* labelled
resolve_ymd(v, y, m) ==
  IF y > 0 /\ m > 0 THEN <<v[y].n, v[m].n, v[CHOOSE k \in 1..3 : k \notin {y, m}].n>>
  ELSE IF m = 1 THEN (IF v[2].n > 31 THEN <<v[2].n, v[1].n, v[3].n>> ELSE <<v[3].n, v[1].n, v[2].n>>)
  ELSE IF m = 2 THEN (IF v[1].n > 31 THEN <<v[1].n, v[2].n, v[3].n>> ELSE <<v[3].n, v[2].n, v[1].n>>)
  ELSE IF m = 3 THEN (IF v[2].n > 31 THEN <<v[2].n, v[3].n, v[1].n>> ELSE <<v[1].n, v[3].n, v[2].n>>)
  ELSE IF v[1].n > 31 \/ y = 1
       THEN (IF v[3].n <= 12 THEN <<v[1].n, v[3].n, v[2].n>> ELSE <<v[1].n, v[2].n, v[3].n>>)
  ELSE IF v[1].n > 12 \/ v[2].n <= 12 THEN <<v[3].n, v[2].n, v[1].n>>
  ELSE <<v[3].n, v[1].n, v[2].n>>

\* dateutil's parserinfo.convertyear of a year without century
convertyear(year, this_year) ==
  With(year + (this_year \div 100) * 100, LAMBDA guess :
    IF guess >= this_year + 50 THEN guess - 100
    ELSE IF guess < this_year - 50 THEN guess + 100 ELSE guess)

\* the three values of the tokens l, at the places p: a number followed by
\* '-', '/' or '.' starts a chain whose members are appended as text, the
\* third one when the same separator comes again
YmdOf(l, p) ==
  With(l[1][1] \in DigitSet /\ l[2][1] \in {"-", "/", "."}, LAMBDA chain :
    [k \in 1..3 |-> Ymd(l[p[k]], chain /\ (k < 3 \/ l[4] = l[2]))])

\* dateutil.parser.parse(candidate, dayfirst=True).date() for a candidate as
\* DATE_PATTERN captures it, whose words are month names or no words of
\* dateutil's; NoDate when it raises
dateutil_parse(candidate, today) ==
  With(Tokens(candidate), LAMBDA l :
    With(SelectSeq(Indices(Len(l)), LAMBDA k : Kind(l[k][1]) # "-"), LAMBDA p :
      IF \/ Len(p) # 3 \/ p[1] # 1 \/ Glued(candidate)
         \/ \E k \in 1..3 : Len(l[p[k]]) > 4 /\ l[p[k]][1] \in DigitSet
         \/ l[1][1] \in DigitSet /\ l[2][1] \in {"-", "/", "."} /\ (p[2] # 3 \/ (l[4] = l[2] /\ p[3] # 5))
      THEN NoDate
      ELSE With(YmdOf(l, p), LAMBDA v :
        IF \/ \E k \in 1..3 : v[k].label = "?"
           \/ \E j, k \in 1..3 : j # k /\ v[j].label = v[k].label /\ v[k].label # ""
        THEN NoDate
        ELSE With(resolve_ymd(v, Labelled(v, "Y"), Labelled(v, "M")), LAMBDA ymd :
          DateOf(IF ymd[1] < 100 /\ Labelled(v, "Y") = 0 THEN convertyear(ymd[1], today[1]) ELSE ymd[1],
                 ymd[2], ymd[3])))))

(***************************************************************************)
(* modules/config.py DATE_PATTERN, modules/date_parser.py                  *)
(***************************************************************************)
\* DATE_PATTERN is (DATE_label) DATE_gap (DATE_date): group 1 is the label with
\* up to 40 characters after it, group 2 the date
DATE_label == Cat(<<WordB, Alt(<<Cat(<<Lit(<<"R","e","v","i","s","i","o","n">>), Opt(Cat(<<Star(Sp), Lit(<<"D","a","t","e">>)>>))>>), Cat(<<Lit(<<"I","s","s","u","e">>), Star(Sp), Lit(<<"D","a","t","e">>)>>), Cat(<<Lit(<<"D","a","t","e">>), Star(Sp), Lit(<<"o","f">>), Star(Sp), Lit(<<"i","s","s","u","e">>)>>), Cat(<<Lit(<<"V","e","r","s","i","o","n">>), Star(Sp), Lit(<<"d","a","t","e">>)>>), Cat(<<Lit(<<"S","D","S">>), Star(Sp), Lit(<<"c","r","e","a","t","i","o","n">>), Star(Sp), Lit(<<"d","a","t","e">>)>>), Cat(<<Lit(<<"D","a","t","e">>), Star(Sp), Lit(<<"P","r","e","p","a","r","e","d">>)>>), Cat(<<Lit(<<"P","r","e","p","a","r","e","d">>), Star(Sp), Lit(<<"o","n">>)>>), Lit(<<"P","r","e","p","a","r","e","d">>), Lit(<<"I","s","s","u","e","d">>), Cat(<<Lit(<<"P","r","i","n","t","e","d">>), Star(Sp), Lit(<<"o","n">>)>>), Cat(<<Lit(<<"P","r","i","n","t">>), Star(Sp), Lit(<<"d","a","t","e">>)>>), Cat(<<Lit(<<"P","r","i","n","t","i","n","g">>), Star(Sp), Lit(<<"d","a","t","e">>)>>)>>), Rep(NSet({"\n"}), 0, 40)>>)
DATE_gap   == Cat(<<Star(Sp), Opt(Lit(<<":">>)), Star(Sp), Opt(Cat(<<Lit(<<"\n","P","a","g","e">>), Star(NSet({"\n"})), Lit(<<"\n">>)>>)), Star(Sp)>>)
DATE_date  == Alt(<<Cat(<<Rep(Dig, 1, 2), Set({"/", "-"}), Rep(Dig, 1, 2), Set({"/", "-"}), Rep(Dig, 2, 4)>>), Cat(<<Rep(Dig, 4, 4), Lit(<<"-">>), Rep(Dig, 2, 2), Lit(<<"-">>), Rep(Dig, 2, 2)>>), Cat(<<Plus(Set(UpperSet \cup LowerSet)), Opt(Lit(<<".">>)), Plus(Sp), Rep(Dig, 1, 2), Opt(Lit(<<",">>)), Star(Sp), Rep(Dig, 4, 4)>>), Cat(<<Rep(Dig, 1, 2), Plus(Sp), Plus(Set(UpperSet \cup LowerSet)), Opt(Lit(<<".">>)), Plus(Sp), Rep(Dig, 4, 4)>>), Cat(<<Rep(Dig, 1, 2), Set({"-", "/", "."}), Rep(Set(UpperSet \cup LowerSet), 3, Unbounded), Opt(Lit(<<".">>)), Set({"-", "/", "."}), Rep(Dig, 2, 4)>>)>>)

\* list(DATE_PATTERN.finditer(text)) from position `from` on, each match as
\* [label |-> m.group(1).lower(), candidate |-> m.group(2).strip()]
RECURSIVE DATE_matches(_, _)
DATE_matches(text, from) ==
  With(SearchFrom(Cat(<<DATE_label, DATE_gap>>), DATE_date, Empty, text, CI, from), LAMBDA m :
    IF ~m.ok THEN <<>>
    ELSE <<[label |-> LowerStr(Group1(text,
                        SearchFrom(Empty, DATE_label, Cat(<<DATE_gap, DATE_date>>), text, CI, m.st))),
            candidate |-> Strip(Group1(text, m))]>> \o DATE_matches(text, m.en))

\* a choice that prefers no label: the first date is taken
Preferred_none(label) == FALSE

\* any(key in label for key in ['issue', 'prepared', 'issued', 'creation', 'revision', 'version'])
Preferred(label) ==
  AnyIn(<<<<"i","s","s","u","e">>, <<"p","r","e","p","a","r","e","d">>, <<"i","s","s","u","e","d">>, <<"c","r","e","a","t","i","o","n">>, <<"r","e","v","i","s","i","o","n">>, <<"v","e","r","s","i","o","n">>>>, label)

\* the parsed date of a match when it is not skipped, else NoDate
DP_date(m, today) ==
  With(dateutil_parse(m.candidate, today), LAMBDA d :
    IF d # NoDate /\ NotAfter(d, today) THEN d ELSE NoDate)

\* date_parser.extract_issue_date: the first date with a preferred label, or
\* else the first date
DP_chosen(matches, today) ==
  With([k \in 1..Len(matches) |-> DP_date(matches[k], today)], LAMBDA ds :
    With(FirstOf([k \in 1..Len(matches) |-> IF Preferred(matches[k].label) THEN ds[k] ELSE NoDate]
                   \o ds, NoDate), LAMBDA d :
      IF d = NoDate THEN None ELSE strftime(d)))

extract_issue_date(text, today) == DP_chosen(DATE_matches(text, 0), today)

(***************************************************************************)
(* sds_extractor.py: extract_date                                          *)
(***************************************************************************)
\* re.sub(r'\b([A-Za-z]{3,})\.', r'\1', date_str): the point after a word of
\* three letters or more is dropped
AfterWord(s, k) ==
  \E p \in 1..(k - 3) : /\ \A j \in p..(k - 1) : s[j] \in AlphaSet
                        /\ (p = 1 \/ s[p - 1] \notin WordSet)
Unpointed(date_str) ==
  With(SelectSeq(Indices(Len(date_str)), LAMBDA k : ~(date_str[k] = "." /\ AfterWord(date_str, k))),
       LAMBDA keep : [n \in 1..Len(keep) |-> date_str[keep[n]]])

\* re.findall(pattern, text, re.IGNORECASE) from position `from` on, for a
\* pattern <<pre, grp, post>> with one group
RECURSIVE FindAll(_, _, _)
FindAll(pattern, text, from) ==
  With(SearchFrom(pattern[1], pattern[2], pattern[3], text, CI, from), LAMBDA m :
    IF ~m.ok THEN <<>> ELSE <<Group1(text, m)>> \o FindAll(pattern, text, m.en))

\* for fmt in formats: the first reading of date_str that is a date not after
\* today, in ISO form, or None
FirstReading(date_str, formats, today) ==
  With(Unpointed(date_str), LAMBDA cleaned :
    With(FirstOf([k \in 1..Len(formats) |->
                    With(strptime(cleaned, formats[k]), LAMBDA parsed_date :
                      IF parsed_date # NoDate /\ NotAfter(parsed_date, today)
                      THEN parsed_date ELSE NoDate)], NoDate), LAMBDA d :
      IF d = NoDate THEN None ELSE strftime(d)))

date_patterns == <<
  <<Cat(<<Alt(<<Cat(<<Lit(<<"I","s","s","u","e">>), Star(Sp), Lit(<<"D","a","t","e">>)>>), Cat(<<Lit(<<"R","e","v","i","s","i","o","n">>), Opt(Cat(<<Star(Sp), Lit(<<"D","a","t","e">>)>>))>>), Cat(<<Lit(<<"D","a","t","e">>), Star(Sp), Lit(<<"o","f">>), Star(Sp), Lit(<<"i","s","s","u","e">>)>>), Cat(<<Lit(<<"V","e","r","s","i","o","n">>), Star(Sp), Lit(<<"d","a","t","e">>)>>), Cat(<<Lit(<<"D","a","t","e">>), Star(Sp), Lit(<<"P","r","e","p","a","r","e","d">>)>>), Cat(<<Lit(<<"P","r","e","p","a","r","e","d">>), Star(Sp), Lit(<<"o","n">>)>>), Lit(<<"I","s","s","u","e","d">>), Cat(<<Lit(<<"M","S","D","S">>), Star(Sp), Lit(<<"D","a","t","e">>)>>)>>), RepL(NSet({"\n"}), 0, 30), Opt(Set({":", "-"})), Star(Sp)>>), Alt(<<Cat(<<Rep(Dig, 1, 2), Plus(Set({"-", "/", "."})), Rep(Dig, 1, 2), Plus(Set({"-", "/", "."})), Rep(Dig, 2, 4)>>), Cat(<<Rep(Dig, 4, 4), Lit(<<"-">>), Rep(Dig, 2, 2), Lit(<<"-">>), Rep(Dig, 2, 2)>>), Cat(<<Plus(Set(UpperSet \cup LowerSet)), Opt(Lit(<<".">>)), Plus(Sp), Rep(Dig, 1, 2), Opt(Lit(<<",">>)), Star(Sp), Rep(Dig, 4, 4)>>), Cat(<<Rep(Dig, 1, 2), Plus(Sp), Plus(Set(UpperSet \cup LowerSet)), Opt(Lit(<<".">>)), Plus(Sp), Rep(Dig, 4, 4)>>), Cat(<<Rep(Dig, 1, 2), Set({"-", "/", "."}), Rep(Set(UpperSet \cup LowerSet), 3, Unbounded), Opt(Lit(<<".">>)), Set({"-", "/", "."}), Rep(Dig, 2, 4)>>)>>), Empty>>,
  <<Cat(<<Lit(<<"R","e","v","i","s","i","o","n">>), Star(Set(SpaceSet \cup {":"}))>>), Cat(<<Rep(Dig, 4, 4), Lit(<<"-">>), Rep(Dig, 2, 2), Lit(<<"-">>), Rep(Dig, 2, 2)>>), Empty>>,
  <<Cat(<<Lit(<<"R","e","v","i","s","i","o","n">>), Star(Set(SpaceSet \cup {":"}))>>), Cat(<<Rep(Dig, 1, 2), Set({"-", "/"}), Rep(Dig, 1, 2), Set({"-", "/"}), Rep(Dig, 4, 4)>>), Empty>>,
  <<Cat(<<Lit(<<"R","e","v","i","s","i","o","n">>), Star(Set(SpaceSet \cup {":"}))>>), Cat(<<Rep(Dig, 1, 2), Set({"-", "/", "."}), Rep(Set(UpperSet \cup LowerSet), 3, Unbounded), Opt(Lit(<<".">>)), Set({"-", "/", "."}), Rep(Dig, 2, 4)>>), Empty>>,
  <<Cat(<<Lit(<<"R","E","V","I","S","I","O","N">>), Plus(Sp), Lit(<<"D","A","T","E">>), Star(Set(SpaceSet \cup {":"}))>>), Cat(<<Rep(Dig, 1, 2), Plus(Sp), Plus(Wd), Opt(Lit(<<".">>)), Plus(Sp), Rep(Dig, 4, 4)>>), Empty>>,
  <<Cat(<<Lit(<<"R","E","V","I","S","I","O","N">>), Plus(Sp), Lit(<<"D","A","T","E">>), Star(Set(SpaceSet \cup {":"}))>>), Cat(<<Rep(Dig, 1, 2), Set({"-", "/"}), Rep(Dig, 1, 2), Set({"-", "/"}), Rep(Dig, 4, 4)>>), Empty>>,
  <<Cat(<<Lit(<<"R","E","V","I","S","I","O","N">>), Plus(Sp), Lit(<<"D","A","T","E">>), Star(Set(SpaceSet \cup {":"}))>>), Cat(<<Rep(Dig, 1, 2), Set({"-", "/", "."}), Rep(Set(UpperSet \cup LowerSet), 3, Unbounded), Opt(Lit(<<".">>)), Set({"-", "/", "."}), Rep(Dig, 2, 4)>>), Empty>> >>

legacy_formats == <<
  Fmt("d", "/", "m", "Y"), Fmt("m", "/", "d", "Y"), Fmt("Y", "-", "m", "d"), Fmt("d", "-", "m", "Y"),
  Fmt("d", ".", "m", "Y"), Fmt("d", " ", "b", "Y"), Fmt("d", " ", "B", "Y"), Fmt("b", " ", "d", "Y"),
  Fmt("B", " ", "d", "Y"), Fmt("d", "-", "b", "Y"), Fmt("d", "-", "b", "y"), Fmt("d", ".", "b", "Y"),
  Fmt("d", ".", "b", "y") >>

\* stage 2 of extract_date: one pattern of date_patterns
LegacyDate(pattern, text, today) ==
  With(FindAll(pattern, text, 0), LAMBDA matches :
    FirstOf([k \in 1..Len(matches) |-> FirstReading(matches[k], legacy_formats, today)], None))

(***************************************************************************)
(* modules/field_extractor.py: extract_date_from_header                    *)
(***************************************************************************)
revision_patterns == <<
  <<Cat(<<Lit(<<"R","e","v","i","s","i","o","n">>), Opt(Cat(<<Star(Sp), Lit(<<"D","a","t","e">>)>>)), Plus(Set(SpaceSet \cup {":"}))>>), Cat(<<Rep(Dig, 4, 4), Lit(<<"-">>), Rep(Dig, 2, 2), Lit(<<"-">>), Rep(Dig, 2, 2)>>), Empty>>,
  <<Cat(<<Lit(<<"R","e","v","i","s","i","o","n">>), Opt(Cat(<<Star(Sp), Lit(<<"D","a","t","e">>)>>)), Plus(Set(SpaceSet \cup {":"}))>>), Cat(<<Rep(Dig, 1, 2), Set({"/", "-"}), Rep(Dig, 1, 2), Set({"/", "-"}), Rep(Dig, 2, 4)>>), Empty>>,
  <<Cat(<<Lit(<<"R","e","v","i","s","i","o","n">>), Opt(Cat(<<Star(Sp), Lit(<<"D","a","t","e">>)>>)), Plus(Set(SpaceSet \cup {":"}))>>), Cat(<<Rep(Dig, 1, 2), Set({"-", "/", "."}), Rep(Set(UpperSet \cup LowerSet), 3, Unbounded), Opt(Lit(<<".">>)), Set({"-", "/", "."}), Rep(Dig, 2, 4)>>), Empty>>,
  <<Cat(<<Lit(<<"R","e","v">>), Plus(Set(SpaceSet \cup {":"}))>>), Cat(<<Rep(Dig, 4, 4), Lit(<<"-">>), Rep(Dig, 2, 2), Lit(<<"-">>), Rep(Dig, 2, 2)>>), Empty>>,
  <<Cat(<<Lit(<<"R","e","v">>), Plus(Set(SpaceSet \cup {":"}))>>), Cat(<<Rep(Dig, 1, 2), Set({"/", "-"}), Rep(Dig, 1, 2), Set({"/", "-"}), Rep(Dig, 2, 4)>>), Empty>>,
  <<Cat(<<Lit(<<"R","e","v">>), Plus(Set(SpaceSet \cup {":"}))>>), Cat(<<Rep(Dig, 1, 2), Set({"-", "/", "."}), Rep(Set(UpperSet \cup LowerSet), 3, Unbounded), Opt(Lit(<<".">>)), Set({"-", "/", "."}), Rep(Dig, 2, 4)>>), Empty>>,
  <<Cat(<<Lit(<<"D","a","t","e">>), Plus(Set(SpaceSet \cup {":"}))>>), Cat(<<Rep(Dig, 4, 4), Lit(<<"-">>), Rep(Dig, 2, 2), Lit(<<"-">>), Rep(Dig, 2, 2)>>), Empty>>,
  <<Cat(<<Lit(<<"D","a","t","e">>), Plus(Set(SpaceSet \cup {":"}))>>), Cat(<<Rep(Dig, 1, 2), Set({"/", "-"}), Rep(Dig, 1, 2), Set({"/", "-"}), Rep(Dig, 2, 4)>>), Empty>>,
  <<Cat(<<Lit(<<"D","a","t","e">>), Plus(Set(SpaceSet \cup {":"}))>>), Cat(<<Rep(Dig, 1, 2), Plus(Sp), Rep(Set(UpperSet \cup LowerSet), 3, Unbounded), Opt(Lit(<<".">>)), Plus(Sp), Rep(Dig, 2, 4)>>), Empty>>,
  <<Cat(<<Lit(<<"P","r","i","n","t","i","n","g">>), Plus(Sp), Lit(<<"d","a","t","e">>), Plus(Set(SpaceSet \cup {":"}))>>), Cat(<<Rep(Dig, 1, 2), Plus(Sp), Rep(Set(UpperSet \cup LowerSet), 3, Unbounded), Opt(Lit(<<".">>)), Plus(Sp), Rep(Dig, 4, 4)>>), Empty>>,
  <<Cat(<<Lit(<<"P","r","i","n","t","e","d">>), Plus(Sp), Lit(<<"o","n">>), Plus(Set(SpaceSet \cup {":"}))>>), Cat(<<Rep(Dig, 1, 2), Set({"-", "/", "."}), Rep(Set(UpperSet \cup LowerSet), 3, Unbounded), Opt(Lit(<<".">>)), Set({"-", "/", "."}), Rep(Dig, 2, 4)>>), Empty>> >>

header_formats == <<
  Fmt("Y", "-", "m", "d"), Fmt("d", "/", "m", "Y"), Fmt("m", "/", "d", "Y"), Fmt("d", "-", "m", "Y"),
  Fmt("d", " ", "b", "Y"), Fmt("d", " ", "B", "Y"), Fmt("d", "-", "b", "Y"), Fmt("d", "-", "b", "y"),
  Fmt("d", ".", "b", "Y"), Fmt("d", ".", "b", "y") >>

\* one pattern on one line of the header
HeaderDate(pattern, line, today) ==
  With(SearchG(pattern[1], pattern[2], pattern[3], line, CI), LAMBDA match :
    IF match.ok THEN FirstReading(Group1(line, match), header_formats, today) ELSE None)

\* one of the first 20 lines
HeaderLine(raw_line, today) ==
  With(Strip(raw_line), LAMBDA line :
    IF line = <<>> THEN None
    ELSE FirstOf([k \in 1..Len(revision_patterns) |-> HeaderDate(revision_patterns[k], line, today)],
                 None))

extract_date_from_header(text, today) ==
  IF ~Truthy(text) THEN None
  ELSE With(SplitLines(text), LAMBDA lines :
    FirstOf([n \in 1..Min(20, Len(lines)) |-> HeaderLine(lines[n], today)], None))

\* sds_extractor.extract_date
extract_date(text, today) ==
  FirstOf(<<extract_issue_date(text, today)>>
            \o [k \in 1..Len(date_patterns) |-> LegacyDate(date_patterns[k], text, today)]
            \o <<extract_date_from_header(text, today)>>, None)

(***************************************************************************)
(* sds_extractor.py: extract_text_from_pdf                                 *)
(***************************************************************************)
\* config.py: the least stripped length of a text that needs no OCR
MIN_TEXT_LENGTH == 50
\* ocr_service.py: the pages a capped reader scans
max_pages == 10

RECURSIVE PageText(_)
\* A PDF is what each of the four text sources yields for it, page by page, in
\* the order in which extract_text_from_pdf asks them: pdfplumber, PyMuPDF,
\* pdfminer, OCR.
\* text += page.extract_text() or "", for every page
PageText(pages) ==
  IF pages = <<>> THEN <<>> ELSE PageText(SubSeq(pages, 1, Len(pages) - 1)) \o pages[Len(pages)]

extract_text_from_pdf(pdf_path) ==
  With(PageText(pdf_path[1]), LAMBDA t1 :
    IF Strip(t1) # <<>> THEN t1
    ELSE With(t1 \o PageText(pdf_path[2]), LAMBDA t2 :
      IF Strip(t2) # <<>> THEN t2
      ELSE With(PageText(pdf_path[3]), LAMBDA t3 :
        IF Strip(t3) # <<>> THEN t3
        ELSE With(t3 \o PageText(pdf_path[4]), LAMBDA t4 :
          IF Strip(t4) # <<>> THEN t4 ELSE <<>>))))

(***************************************************************************)
(* sds_extractor.py: parse_pdf, field by field                             *)
(***************************************************************************)
\* {'value': v, 'confidence': 1.0 if v else 0.0}
Entry(v) == [value |-> v, confidence |-> IF Truthy(v) THEN 1 ELSE 0]

\* the extraction_info entry
ExtractionInfo(n) == [text_length |-> n, extraction_mode |-> "full"]

\* lines 794-796 left out: the class is reported as found
DG_unvalidated(dg_class) == dg_class

\* lines 794-796: a class that fails validation is dropped
DG_validated(dg_class) ==
  IF Truthy(dg_class) /\ ~validate_dangerous_goods_class(dg_class) THEN None ELSE dg_class

\* lines 783-796
parse_dangerous_goods_class(text, section14) ==
  DG_validated(
    OrElse(OrElse(extract_section14_field(section14, dg_labels, "dangerous_goods_class"),
                  extract_field_value(text, dg_labels, section14)),
           extract_dg_class_from_table(section14)))

\* line 801
parse_subsidiary_risk(text, section14) == extract_field_value(text, subsidiary_labels, section14)

\* lines 811-819
parse_packing_group(text, section14) ==
  OrElse(OrElse(extract_section14_field(section14, pg_labels, "packing_group"),
                extract_field_value(text, pg_labels, section14)),
         extract_packing_group_from_table(section14))

(***************************************************************************)
(* parse_sds.py: transform_to_chemfetch_format                             *)
(***************************************************************************)
\* lines 86-91: the value of a field of confidence above 0, else None
get_value(parsed_data, field_name) ==
  IF field_name \in DOMAIN parsed_data /\ parsed_data[field_name].confidence > 0
  THEN parsed_data[field_name].value ELSE None

\* value.lower() not in ['none', 'not applicable', 'n/a', 'na']
NotNone(value) == LowerStr(value) \notin {<<"n","o","n","e">>, <<"n","o","t"," ","a","p","p","l","i","c","a","b","l","e">>, <<"n","/","a">>, <<"n","a">>}

\* lines 93-101
is_dangerous_good(parsed_data) ==
  With(get_value(parsed_data, "dangerous_goods_class"), LAMBDA dangerous_goods_class :
    Truthy(dangerous_goods_class) /\ NotNone(Strip(dangerous_goods_class)))

\* lines 110-113
subsidiary_risks(parsed_data) ==
  With(get_value(parsed_data, "subsidiary_risk"), LAMBDA subsidiary_risk :
    IF Truthy(subsidiary_risk) /\ NotNone(subsidiary_risk) THEN <<subsidiary_risk>> ELSE <<>>)

transform_to_chemfetch_format(parsed_data, product_id) ==
  [product_id |-> product_id,
   product_name |-> get_value(parsed_data, "product_name"),
   vendor |-> OrElse(get_value(parsed_data, "manufacturer"), <<>>),
   issue_date |-> get_value(parsed_data, "issue_date"),
   hazardous_substance |-> is_dangerous_good(parsed_data),
   dangerous_good |-> is_dangerous_good(parsed_data),
   dangerous_goods_class |->
     With(get_value(parsed_data, "dangerous_goods_class"), LAMBDA c : IF Truthy(c) THEN Strip(c) ELSE c),
   packing_group |-> get_value(parsed_data, "packing_group"),
   subsidiary_risks |-> subsidiary_risks(parsed_data),
   raw_json |-> parsed_data]

(***************************************************************************)
(* The documents                                                           *)
(***************************************************************************)
\* the longest document body, in lines
MaxLines == 2

\* the sequences of 1..n elements of the sequence v
Longer(shorter, v) == shorter \cup {Append(q, v[k]) : q \in shorter, k \in 1..Len(v)}
RECURSIVE SeqsUpTo(_, _)
SeqsUpTo(v, n) == IF n = 0 THEN {<<>>} ELSE Longer(SeqsUpTo(v, n - 1), v)

\* the texts made of one of the headers (a sequence of lines, <<>> for a text
\* without header) and one to MaxLines lines of v
Documents(headers, v) ==
  {Join(headers[h] \o body) : h \in 1..Len(headers), body \in SeqsUpTo(v, MaxLines) \ {<<>>}}

\* a PDF of one page, whose text only the k-th text source yields
OnlyFrom(k, t) == [n \in 1..4 |-> IF n = k THEN <<t>> ELSE <<>>]

\* a PDF no text source reads anything from but white space
BlankPdf == << <<<<" ","\n">>>>, <<>>, <<>>, <<>> >>

Headers14 == << <<<<"S","e","c","t","i","o","n"," ","1","4",":"," ","T","r","a","n","s","p","o","r","t"," ","i","n","f","o","r","m","a","t","i","o","n">>>>, <<<<"1","4","."," ","T","r","a","n","s","p","o","r","t"," ","i","n","f","o","r","m","a","t","i","o","n">>>>, <<>> >>
Lines14 == <<
  <<"D","G"," ","C","l","a","s","s",":"," ","1","9","5","0">>, <<"P","a","c","k","i","n","g"," ","G","r","o","u","p",":"," ","I","I","I">>, <<"D","G"," ","C","l","a","s","s",":"," ","1","4",".","5">>, <<"P","a","c","k","i","n","g"," ","G","r","o","u","p",":"," ","7">>,
  <<"C","l","a","s","s"," ","2",".","1">>, <<"D","G"," ","C","l","a","s","s"," "," ","P","a","c","k","i","n","g"," ","G","r","o","u","p">>, <<"3"," "," ","I","I">>, <<"D","G"," ","C","l","a","s","s",":"," ","N","o","t"," ","r","e","g","u","l","a","t","e","d"," ","f","o","r"," ","t","r","a","n","s","p","o","r","t">> >>

Pdfs14 == {OnlyFrom(1, t) : t \in Documents(Headers14, Lines14)} \cup {BlankPdf}

Headers1 == << <<<<"S","e","c","t","i","o","n"," ","1",":"," ","I","d","e","n","t","i","f","i","c","a","t","i","o","n">>>>, <<>> >>
Lines1 == <<
  <<"M","a","n","u","f","a","c","t","u","r","e","r",":"," ","F","a","c","s","i","m","i","l","e"," ","N","u","m","b","e","r">>, <<"C","h","e","m","t","o","o","l","s"," ","P","t","y"," ","L","t","d">>, <<"P","r","o","d","u","c","t"," ","n","a","m","e",":"," ","0","0","0","0","0","0","3","4","7","7">>,
  <<"L","a","n","g","u","a","g","e">>, <<"C","o","m","p","a","n","y"," ","n","a","m","e",":"," ","P","r","o","d","u","c","t"," ","N","a","m","e">>, <<"A","c","m","e"," ","C","h","e","m","i","c","a","l","s">>,
  <<"R","e","c","o","m","m","e","n","d","e","d"," ","u","s","e",":"," ","D","e","g","r","e","a","s","e","r">> >>

Pdfs1 == {OnlyFrom(2, t) : t \in Documents(Headers1, Lines1)} \cup {BlankPdf}

HeadersDate == << <<>> >>
LinesDate == <<
  <<"P","r","i","n","t","i","n","g"," ","d","a","t","e",":"," ","5"," ","M","a","y"," ","2","0","2","2">>, <<"R","e","v","i","s","i","o","n",":"," ","1","9"," ","J","a","n","u","a","r","y"," ","2","0","2","4">>, <<"I","s","s","u","e"," ","D","a","t","e",":"," ","0","5","/","1","2","/","2","0","2","6">>,
  <<"R","e","v","i","s","i","o","n"," ","d","a","t","e",":"," ","1","5","/","0","3","/","2","0","2","1">>, <<"D","a","t","e"," ","o","f"," ","i","s","s","u","e",":"," ","3","0"," ","J","u","n","e"," ","2","0","2","7">>, <<"V","e","r","s","i","o","n"," ","2">>,
  <<"P","r","i","n","t"," ","d","a","t","e"," ","1",".","2",".","2","0","2","0">>, <<"R","e","v","i","s","i","o","n"," ","d","a","t","e",":"," ","0","1","/","0","2","/","1","2","3">>, <<"I","s","s","u","e"," ","D","a","t","e",":"," ","1","5","/","0","3","/","2","0","2","1">>,
  <<"R","e","v","i","s","i","o","n"," ","d","a","t","e",":"," ","2","0","2","1","-","0","3","-","1","5">> >>

PdfsDate == {OnlyFrom(3, t) : t \in Documents(HeadersDate, LinesDate)} \cup {BlankPdf}

LinesNoise == <<
  <<"M","S","D","S"," ","D","a","t","e">>, <<"A","l","t","e","r","n","a","t","i","v","e"," ","n","u","m","b","e","r","(","s",")">>, <<"F","a","c","s","i","m","i","l","e"," ","N","u","m","b","e","r">>, <<"s","a","f","e","t","y"," ","d","a","t","a"," ","s","h","e","e","t">>, <<"N","a","m","e">>,
  <<":">>, <<"'","s">>, <<"1","3"," ","1","1"," ","2","6">>, <<"A","u","s","t","r","a","l","i","a"," ","-"," ","1","3"," ","1","1"," ","2","6">>, <<"A","u","s","t","r","a","l","i","a">>, <<"F","A","C","S","I","M","I","L","E"," ","N","U","M","B","E","R">>,
  <<"n","a","m","e">>, <<"3">>, <<"a">> >>

PdfsNoise == {OnlyFrom(1, t) : t \in Documents(<< <<>> >>, LinesNoise)} \cup {BlankPdf}

HeadersSections == <<
  <<<<"S","e","c","t","i","o","n"," ","1",":"," ","I","d","e","n","t","i","f","i","c","a","t","i","o","n">>>>, <<<<"S","e","c","t","i","o","n"," ","1",":"," ","P","r","o","d","u","c","t"," ","d","e","t","a","i","l","s">>>>,
  <<<<" "," ","S","e","c","t","i","o","n"," ","1",":"," ","I","d","e","n","t","i","f","i","c","a","t","i","o","n">>>>, <<<<>>, <<"S","e","c","t","i","o","n"," ","1",":"," ","I","d","e","n","t","i","f","i","c","a","t","i","o","n">>>> >>
LinesSections == <<
  <<"A","c","m","e"," ","C","h","e","m","i","c","a","l","s">>, <<"2"," ","F","r","e","d"," ","S","t","r","e","e","t",","," ","S","p","r","i","n","g","f","i","e","l","d">>, <<"S","e","c","t","i","o","n"," ","2",":"," ","H","a","z","a","r","d","s"," ","i","d","e","n","t","i","f","i","c","a","t","i","o","n">>,
  <<"F","l","a","m","m","a","b","l","e"," ","l","i","q","u","i","d">>, <<"P","r","o","d","u","c","t"," ","n","a","m","e",":"," ","G","l","u","e">> >>

PdfsSections == {OnlyFrom(1, t) : t \in Documents(HeadersSections, LinesSections)} \cup {BlankPdf}

LinesLabels == <<
  <<"S","u","p","p","l","i","e","r",":"," ","A","c","m","e"," ","M","a","n","u","f","a","c","t","u","r","e","r",":"," ","B","o","l","t"," ","I","n","c">>, <<"P","r","o","d","u","c","t"," ","n","a","m","e",":"," ","G","l","u","e"," ","T","r","a","d","e"," ","n","a","m","e",":"," ","S","t","i","c","k">>,
  <<"S","u","p","p","l","i","e","r"," ","N","a","m","e",":"," ","A","c","m","e">>, <<"P","r","o","d","u","c","e","r",":"," ","Z","e","d"," ","D","i","s","t","r","i","b","u","t","o","r",":"," ","A","c","m","e">>,
  <<"I","n","t","e","n","d","e","d"," ","u","s","e",":"," ","S","o","l","v","e","n","t"," ","R","e","c","o","m","m","e","n","d","e","d"," ","u","s","e",":"," ","P","a","i","n","t">>, <<"C","o","m","p","a","n","y"," ","n","a","m","e",":"," ","A","c","m","e"," ","S","u","p","p","l","i","e","r",":"," ","B","o","l","t">>,
  <<"P","r","o","d","u","c","t"," ","n","a","m","e",":"," ","G","l","u","e">> >>

PdfsLabels == {OnlyFrom(1, t) : t \in Documents(<<Headers1[1]>>, LinesLabels)} \cup {BlankPdf}

\* Section 1 texts in which the manufacturer label stands alone and the value
\* comes after up to MaxFill lines of noise or blank lines, or in which the
\* value stands on the line of the label, before contact details
MaxFill == 4
FillScan == <<<<"L","a","n","g","u","a","g","e">>, <<>>>>
ValuesScan == {<<"A","c","m","e"," ","C","h","e","m","i","c","a","l","s">>, <<"A","c","m","e"," ","C","h","e","m","i","c","a","l","s"," ","T","e","l",":"," ","1","2","3">>}
SameLineScan == {
  <<"M","a","n","u","f","a","c","t","u","r","e","r",":"," ","A","c","m","e"," ","C","h","e","m","i","c","a","l","s"," ","F","a","x",":"," ","1"," ","T","e","l",":"," ","2">>, <<"M","a","n","u","f","a","c","t","u","r","e","r",":"," ","A","c","m","e"," ","C","h","e","m","i","c","a","l","s"," ","T","e","l",":"," ","2">>,
  <<"M","a","n","u","f","a","c","t","u","r","e","r",":"," ","A","c","m","e"," ","C","h","e","m","i","c","a","l","s"," ","E","m","a","i","l",":"," ","a"," ","A","d","d","r","e","s","s",":"," ","2">>, <<"M","a","n","u","f","a","c","t","u","r","e","r",":"," ","A","c","m","e"," ","C","h","e","m","i","c","a","l","s"," ","C","o","n","t","a","c","t",":"," ","B","o","b">> }
TextsScan ==
  {Join(Headers1[1] \o <<<<"M","a","n","u","f","a","c","t","u","r","e","r">>>> \o fill \o <<v>>) : fill \in SeqsUpTo(FillScan, MaxFill), v \in ValuesScan}
    \cup {Join(Headers1[1] \o <<l>>) : l \in SameLineScan}

PdfsScan == {OnlyFrom(1, t) : t \in TextsScan} \cup {BlankPdf}

LinesTransport == <<
  <<"D","G"," ","C","l","a","s","s",":"," ","N","o","t"," ","s","u","b","j","e","c","t"," ","t","o"," ","t","r","a","n","s","p","o","r","t"," ","r","e","g","u","l","a","t","i","o","n","s",":"," ","U","N"," ","R","T","D","G">>, <<"P","a","c","k","i","n","g"," ","G","r","o","u","p",":"," ","n","o","t"," ","a","s","s","i","g","n","e","d">>,
  <<"P","a","c","k","i","n","g"," ","G","r","o","u","p",":"," ","I">>, <<"P","a","c","k","i","n","g"," ","G","r","o","u","p",":"," ","I","I">>, <<"P","a","c","k","i","n","g"," ","G","r","o","u","p",":"," ","I","I","I">>, <<"U","N"," ","N","u","m","b","e","r",":"," ","N","o","n","e">> >>

PdfsTransport == {OnlyFrom(1, t) : t \in Documents(<<Headers14[1]>>, LinesTransport)} \cup {BlankPdf}

\* what a text source may yield: nothing, one page, or ten empty pages and an
\* eleventh with text
PagesText == {
  <<>>, <<<<"C","l","a","s","s"," ","2",".","1">>>>, <<<<"D","G"," ","C","l","a","s","s",":"," ","3","\n","P","a","c","k","i","n","g"," ","G","r","o","u","p",":"," ","I","I">>>>,
  [n \in 1..11 |-> IF n = 11 THEN <<"P","r","o","d","u","c","t"," ","n","a","m","e",":"," ","G","l","u","e","\n","C","l","a","s","s"," ","3">> ELSE <<>>] }

PdfsText == [1..4 -> PagesText] \cup {BlankPdf}

\* the days the parse may run on: datetime.now().date()
Days == {<<2026, 11, 3>>}
DaysDate == {<<2026, 11, 3>>, <<2022, 1, 1>>}

(***************************************************************************)
(* parse_pdf as a machine: one step per field                              *)
(***************************************************************************)
VARIABLES pc, pdf, today, text, section1, section14, result, earlier
vars == <<pc, pdf, today, text, section1, section14, result, earlier>>

NoRecord == [k \in {} |-> None]

InitWith(pdfs, days) ==
  /\ pdf \in pdfs
  /\ today \in days
  /\ pc = "extract_text"
  /\ text = None /\ section1 = None /\ section14 = None
  /\ result = NoRecord
  /\ earlier = <<>>

\* line 699
ExtractText ==
  /\ pc = "extract_text"
  /\ text' = extract_text_from_pdf(pdf)
  /\ pc' = "sections"
  /\ UNCHANGED <<pdf, today, section1, section14, result, earlier>>

\* an ending that makes up the fields of an unread document
DefaultRecord ==
  /\ pc = "sections" /\ ~Truthy(text)
  /\ result' = [f \in {"product_name", "manufacturer", "description", "product_use",
                        "dangerous_goods_class", "subsidiary_risk", "packing_group",
                        "issue_date"} |-> Entry(None)]
                 @@ ("extraction_info" :> ExtractionInfo(0))
  /\ pc' = "done"
  /\ UNCHANGED <<pdf, today, text, section1, section14, earlier>>

\* lines 700-712
ErrorRecord ==
  /\ pc = "sections" /\ ~Truthy(text)
  /\ result' = ("error" :> <<"C","o","u","l","d"," ","n","o","t"," ","e","x","t","r","a","c","t"," ","t","e","x","t"," ","f","r","o","m"," ","P","D","F">>) @@ ("extraction_info" :> ExtractionInfo(0))
  /\ pc' = "done"
  /\ UNCHANGED <<pdf, today, text, section1, section14, earlier>>

\* lines 715-731
GetSections ==
  /\ pc = "sections" /\ Truthy(text)
  /\ section1' = get_section(text, 1)
  /\ section14' = get_section(text, 14)
  /\ result' = ("extraction_info" :> ExtractionInfo(Len(text)))
  /\ pc' = "product_name"
  /\ UNCHANGED <<pdf, today, text, earlier>>

\* a field step: the entry of `field` is set and control moves on to `next`
Step(field, v, next) ==
  /\ pc = field
  /\ result' = result @@ (field :> Entry(v))
  /\ pc' = next
  /\ UNCHANGED <<pdf, today, text, section1, section14, earlier>>

\* lines 733-743
ProductName ==
  Step("product_name", parse_product_name(text, section1), "manufacturer")
\* lines 745-755
Manufacturer ==
  Step("manufacturer", parse_manufacturer(text, section1), "description")
\* lines 757-759
Description ==
  Step("description", parse_description(section1), "product_use")
\* lines 761-769
ProductUse ==
  Step("product_use", parse_product_use(text, section1), "dangerous_goods_class")
\* lines 771-798
DangerousGoodsClass ==
  Step("dangerous_goods_class", parse_dangerous_goods_class(text, section14), "subsidiary_risk")
\* lines 800-802
SubsidiaryRisk ==
  Step("subsidiary_risk", parse_subsidiary_risk(text, section14), "packing_group")
\* lines 804-821
PackingGroup ==
  Step("packing_group", parse_packing_group(text, section14), "issue_date")
\* lines 823-825
IssueDate ==
  Step("issue_date", extract_date(text, today), "final_validation")

\* lines 827-834
FinalValidation ==
  /\ pc = "final_validation"
  /\ result' = [result EXCEPT !["product_name"] = Swept("product_name", @),
                               !["manufacturer"] = Swept("manufacturer", @)]
  /\ pc' = "done"
  /\ UNCHANGED <<pdf, today, text, section1, section14, earlier>>

Next ==
  \/ ExtractText
  \/ ErrorRecord
  \/ GetSections
  \/ ProductName
  \/ Manufacturer
  \/ Description
  \/ ProductUse
  \/ DangerousGoodsClass
  \/ SubsidiaryRisk
  \/ PackingGroup
  \/ IssueDate
  \/ FinalValidation

\* documents with a Section 14
Init14 == InitWith(Pdfs14, Days)
Spec14 == Init14 /\ [][Next]_vars

\* documents with a Section 1
Init1 == InitWith(Pdfs1, Days)
Spec1 == Init1 /\ [][Next]_vars

\* documents made of the examples of noise
InitNoise == InitWith(PdfsNoise, Days)
SpecNoise == InitNoise /\ [][Next]_vars

\* documents with a Section 1 under a header of either kind, strict or loose
InitSections == InitWith(PdfsSections, Days)
SpecSections == InitSections /\ [][Next]_vars

\* documents with lines of several labels
InitLabels == InitWith(PdfsLabels, Days)
SpecLabels == InitLabels /\ [][Next]_vars

\* the same document is parsed once more, on any of the days: `earlier`
\* keeps the day and the record of the parse that has ended
ParseAgain(days) ==
  /\ pc = "done" /\ earlier = <<>>
  /\ earlier' = <<[day |-> today, record |-> result]>>
  /\ today' \in days
  /\ pc' = "extract_text"
  /\ text' = None /\ section1' = None /\ section14' = None
  /\ result' = NoRecord
  /\ UNCHANGED pdf

\* documents with dates
InitDate == InitWith(PdfsDate, DaysDate)
InitScan == InitWith(PdfsScan, Days)
SpecScan == InitScan /\ [][Next]_vars
InitTransport == InitWith(PdfsTransport, Days)
SpecTransport == InitTransport /\ [][Next]_vars
InitText == InitWith(PdfsText, Days)
SpecText == InitText /\ [][Next]_vars
SpecDate == InitDate /\ [][Next]_vars

\* documents with dates, each parsed twice
ParseAgainDate == ParseAgain(DaysDate)
NextTwice == Next \/ ParseAgainDate
SpecTwice == InitDate /\ [][NextTwice]_vars

(***************************************************************************)
(* utils.compress_duplicates_with_map on its own                           *)
(***************************************************************************)
\* the strings of up to MaxChars characters: letters of both cases, a space, a
\* digit and a punctuation mark
MaxChars == 4
Characters == {"a", "A", "b", " ", "1", "-"}
Strings == UNION {[1..n -> Characters] : n \in 0..MaxChars}

InitCompress ==
  /\ pc = "compress"
  /\ text \in Strings
  /\ pdf = BlankPdf /\ today \in Days
  /\ section1 = None /\ section14 = None
  /\ result = NoRecord
  /\ earlier = <<>>

\* the call compress_duplicates_with_map(s)
Compress ==
  /\ pc = "compress"
  /\ result' = compress_duplicates_with_map(text)
  /\ pc' = "compressed"
  /\ UNCHANGED <<pdf, today, text, section1, section14, earlier>>

SpecCompress == InitCompress /\ [][Compress]_vars


(***************************************************************************)
(* Claims                                                                  *)
(***************************************************************************)
\* the record holds an entry for the field
Reported(field) == field \in DOMAIN result
\* the value of the field's entry
Value(field) == result[field].value

\* end-to-end scenario 2: the Section 14 texts that are 'DG Class: 1950'
\* followed by the line 'Packing Group: III', under each header
Scenario2 ==
  {Join(Headers14[h] \o <<<<"D","G"," ","C","l","a","s","s",":"," ","1","9","5","0">>, <<"P","a","c","k","i","n","g"," ","G","r","o","u","p",":"," ","I","I","I">>>>) : h \in 1..Len(Headers14)}

\* C1: every dangerous_goods_class that parse_pdf reports passes
\* validate_dangerous_goods_class, whichever path produced it, so it is never
\* a four-digit UN number nor '14.5'; and when the Section 14 text is
\* 'DG Class: 1950' followed by 'Packing Group: III', the class is null and
\* the packing group is 'III'.
C1_ClassIsValidated ==
  /\ Reported("dangerous_goods_class") /\ Value("dangerous_goods_class") # None
       => /\ validate_dangerous_goods_class(Value("dangerous_goods_class"))
          /\ ~FullMatch(Rep(Dig, 4, 4), Value("dangerous_goods_class"), CS)
          /\ Value("dangerous_goods_class") # <<"1","4",".","5">>
  /\ Reported("packing_group") /\ section14 \in Scenario2
       => /\ Value("dangerous_goods_class") = None
          /\ Value("packing_group") = <<"I","I","I">>

\* C1 witness: the parse of scenario 2 has ended with the class rejected and
\* the packing group kept
C1_Scenario2Parsed ==
  /\ pc = "done"
  /\ section14 = Join(Headers14[1] \o <<<<"D","G"," ","C","l","a","s","s",":"," ","1","9","5","0">>, <<"P","a","c","k","i","n","g"," ","G","r","o","u","p",":"," ","I","I","I">>>>)
  /\ result["dangerous_goods_class"] = Entry(None)
  /\ result["packing_group"] = Entry(<<"I","I","I">>)

\* C8: every packing_group that parse_pdf reports satisfies the packing-group
\* validator VALID_PACKING_GROUPS; a candidate that fails it is recorded as
\* absent (value null, confidence 0)
C8_PackingGroupIsValidated ==
  Reported("packing_group")
    => \/ result["packing_group"] = Entry(None)
       \/ Match(VALID_PACKING_GROUPS, Value("packing_group"), CI)

\* the parse has ended with a record of fields
Parsed == pc = "done" /\ Truthy(text)

\* the fields of the record
Fields == {"product_name", "manufacturer", "description", "product_use",
           "dangerous_goods_class", "subsidiary_risk", "packing_group", "issue_date"}

\* the string is an entry of config.NOISE_LABELS, matched as a whole and
\* case-insensitively, or a bare country name
NoiseEntry(v) ==
  \/ AnyFullMatch(NOISE_LABELS, v, CI)
  \/ LowerStr(v) \in {<<"a","u","s","t","r","a","l","i","a">>, <<"n","e","w"," ","z","e","a","l","a","n","d">>, <<"u","n","i","t","e","d"," ","s","t","a","t","e","s">>,
                      <<"u","n","i","t","e","d"," ","k","i","n","g","d","o","m">>, <<"u","s","a">>, <<"u","k">>, <<"c","a","n","a","d","a">>}

\* C2: no field of the record returned by parse_pdf, the issue date apart,
\* has as its value an entry of the configured noise list or a bare country
\* name
C2_NoNoiseValue ==
  Parsed => \A f \in Fields \ {"issue_date"} : Value(f) = None \/ ~NoiseEntry(Value(f))

\* the number of a header line, 0 for any other line
HeaderNumber(line) ==
  With(MatchG(SECTION_PATTERN_pre, SECTION_PATTERN_grp, SECTION_PATTERN_post, line, CI),
       LAMBDA m : IF m.ok THEN IntOf(Group1(line, m)) ELSE 0)

\* the first of from..to that satisfies P, or to + 1
FirstIn(from, to, P(_)) ==
  IF \E i \in from..to : P(i)
  THEN CHOOSE i \in from..to : P(i) /\ \A j \in from..(i - 1) : ~P(j)
  ELSE to + 1

\* the lines of section n as the invariant of the sections describes them:
\* those after the first header line of number n, up to the next header line
\* of a greater number or the end of the text
Body(t, n) ==
  With(SplitLines(t), LAMBDA lines :
    With(FirstIn(1, Len(lines), LAMBDA i : HeaderNumber(lines[i]) = n), LAMBDA h :
      SubSeq(lines, h + 1, FirstIn(h + 1, Len(lines), LAMBDA j : HeaderNumber(lines[j]) > n) - 1)))

\* C3: get_section(text, n) is the body of section n: it begins after the
\* header line of n and ends at the next header line of a greater number, or
\* at the end of the text
C3_SectionIsBody ==
  pc \notin {"extract_text", "sections"} /\ Truthy(text)
    => /\ SplitLines(Strip(section1)) = Body(text, 1)
       /\ SplitLines(Strip(section14)) = Body(text, 14)

\* the line is a manufacturer label followed on the same line by noise
NoiseAfterLabel(line) ==
  \E k \in 1..Len(FL_manufacturer) :
    With(MatchG(Cat(<<FL_manufacturer[k], Cat(<<Star(Sp), Set({":", "-"}), Star(Sp)>>)>>), Plus(Dot), Eol, Strip(line), CI), LAMBDA m :
      m.ok /\ U_is_noise_text(Group1(Strip(line), m)))

\* the line carries a manufacturer label
HasLabel(line) == AnySearch(FL_manufacturer, line, CI)

\* the line is neither empty, nor noise, nor a recognised label
Plain(line) ==
  /\ Strip(line) # <<>>
  /\ ~U_is_noise_text(Strip(line))
  /\ ~AnySearch(ALL_FIELD_LABELS, line, CI)

\* the lines a retry reads: i is the first line with a manufacturer label,
\* noise follows the label and the next line is plain
Retried(lines, i) ==
  /\ NoiseAfterLabel(lines[i])
  /\ \A j \in 1..(i - 1) : ~HasLabel(lines[j])
  /\ Plain(lines[i + 1])

Scenario3 ==
  {Join(<<<<"P","r","i","n","t","i","n","g"," ","d","a","t","e",":"," ","5"," ","M","a","y"," ","2","0","2","2">>, <<"R","e","v","i","s","i","o","n",":"," ","1","9"," ","J","a","n","u","a","r","y"," ","2","0","2","4">>>>),
   Join(<<<<"R","e","v","i","s","i","o","n",":"," ","1","9"," ","J","a","n","u","a","r","y"," ","2","0","2","4">>, <<"P","r","i","n","t","i","n","g"," ","d","a","t","e",":"," ","5"," ","M","a","y"," ","2","0","2","2">>>>)}

\* C5: for a text that holds 'Printing date: 5 May 2022' and 'Revision: 19
\* January 2024', in either order, the issue date is '2024-01-19', the
\* revision date as written
C5_RevisionOutranksPrinting ==
  pc = "done" /\ text \in Scenario3 => Value("issue_date") = <<"2","0","2","4","-","0","1","-","1","9">>

\* C6: parse_pdf never reports a numeric code (6 or more characters, a digit,
\* no letter) as the product name
C6_NoNumericCode ==
  Parsed => ~looks_like_numeric_code(Value("product_name"))

\* the day-first reading of the only date candidate of the text is after today
OnlyDateIsFuture ==
  /\ Len(DATE_matches(text, 0)) = 1
  /\ With(dateutil_parse(DATE_matches(text, 0)[1].candidate, today), LAMBDA d :
       d # NoDate /\ ~NotAfter(d, today))

\* C7: a date candidate whose day-first reading is after today is discarded:
\* when it is the only candidate of the text, the issue date is null, under
\* whichever reading
C7_FutureDateDiscarded ==
  Parsed /\ OnlyDateIsFuture => Value("issue_date") = None

\* C9: the record parse_pdf returns has one of two shapes: an error record
\* without field entries when the extracted text is empty, else the eight
\* field entries and extraction_info, however many of the values are null
C9_TwoShapes ==
  pc = "done" =>
    DOMAIN result = IF Truthy(text) THEN Fields \cup {"extraction_info"}
                    ELSE {"error", "extraction_info"}

\* C9 witness: a parse has ended with the eight entries, all but one of them
\* null
C9_MostlyNull ==
  /\ Parsed
  /\ Cardinality({f \in Fields : result[f] = Entry(None)}) = 7

\* C10: each field entry of the record is either a non-empty string with
\* confidence 1 or null with confidence 0
C10_EntryIsBinary ==
  Parsed => \A f \in Fields :
              \/ result[f] = [value |-> None, confidence |-> 0]
              \/ result[f].value \notin {None, <<>>} /\ result[f].confidence = 1

\* C11: parsing the same document twice yields identical records, also when
\* the two parses run on different days
C11_SameRecordTwice ==
  pc = "done" /\ earlier # <<>> => result = earlier[1].record

\* the listed examples of noise, in lower case
NoiseExamples ==
  {<<"m","s","d","s"," ","d","a","t","e">>, <<"a","l","t","e","r","n","a","t","i","v","e"," ","n","u","m","b","e","r","(","s",")">>, <<"f","a","c","s","i","m","i","l","e"," ","n","u","m","b","e","r">>, <<"s","a","f","e","t","y"," ","d","a","t","a"," ","s","h","e","e","t">>, <<"n","a","m","e">>,
   <<":">>, <<"'","s">>, <<"1","3"," ","1","1"," ","2","6">>, <<"a","u","s","t","r","a","l","i","a"," ","-"," ","1","3"," ","1","1"," ","2","6">>, <<"a","u","s","t","r","a","l","i","a">>}

\* C12: each of the two noise classifiers, utils.is_noise_text and
\* sds_extractor.is_noise_text, is true of every line shorter than 2
\* characters and of every listed example of noise, in whatever case
C12_ExamplesAreNoise ==
  Truthy(text) =>
    \A n \in 1..Len(SplitLines(text)) :
      With(SplitLines(text)[n], LAMBDA line :
        Len(line) < 2 \/ LowerStr(line) \in NoiseExamples
          => U_is_noise_text(line) /\ is_noise_text(line))

\* the value a line gives for its label: what follows the first ': ', or the
\* line when it has none
ValueOf(line) ==
  With(SearchG(Cat(<<Bol, Star(NSet({":"})), Lit(<<":">>), Sp>>), Star(Dot), Eol, line, CS), LAMBDA m :
    IF m.ok THEN Group1(line, m) ELSE line)

\* the trimmed value is a class, or the whole of it is one of the phrases
ClassOrPhrase(v, phrases) ==
  Match(VALID_DG_CLASSES, Strip(v), CS) \/ AnyFullMatch(phrases, Strip(v), CI)

\* C13: both implementations of validate_dangerous_goods_class accept a value
\* if and only if, trimmed, it is a digit 1-9 with an optional '.' and digit
\* 1-9, or the whole of it is one of the not-applicable phrases
C13_ClassOrWholePhrase ==
  Truthy(text) =>
    \A n \in 1..Len(SplitLines(text)) :
      With(ValueOf(SplitLines(text)[n]), LAMBDA v :
        /\ validate_dangerous_goods_class(v) = ClassOrPhrase(v, na_patterns)
        /\ U_validate_dangerous_goods_class(v) = ClassOrPhrase(v, U_not_applicable_patterns))

\* a line that starts with a number followed only by a space and words
FalseHeader(line) == Match(Cat(<<Bol, Star(Sp), Rep(Dig, 1, 2), Lit(<<" ">>), Set(UpperSet \cup LowerSet)>>), line, CS) /\ HeaderNumber(line) = 0

\* the element is one of the sequence
OneOf(x, seq) == \E k \in 1..Len(seq) : seq[k] = x

\* C14: get_section(text, 1) holds nothing of section 2 or later, and a line
\* that starts with a number followed only by a space and words does not end
\* section 1, whichever pattern located the section
C14_SectionOneBoundary ==
  pc \notin {"extract_text", "sections"} /\ Truthy(text) /\ section1 # <<>>
    => /\ \A n \in 1..Len(SplitLines(section1)) : HeaderNumber(SplitLines(section1)[n]) < 2
       /\ \A n \in 1..Len(Body(text, 1)) :
            FalseHeader(Body(text, 1)[n]) => OneOf(Body(text, 1)[n], SplitLines(section1))

\* the lists of labels extract_after_label is called with, by field
LabelledFields == {"product_name", "manufacturer", "product_use"}
LabelsOf(field_name) ==
  IF field_name = "product_name" THEN FL_product_name
  ELSE IF field_name = "manufacturer" THEN FL_manufacturer
  ELSE FL_product_use

\* what each label of the list yields on the line when it is the only label
Alone(line, labels, field_name) ==
  [k \in 1..Len(labels) |-> extract_after_label(line, <<labels[k]>>, field_name)]

\* several labels of the list yield a value on the line
Contended(line, labels, field_name) ==
  Cardinality({k \in 1..Len(labels) : Alone(line, labels, field_name)[k] # None}) >= 2

\* C15: when several label patterns of the list yield a value on the same
\* line, extract_after_label returns the value that follows the pattern that
\* comes first in the list, wherever the labels stand in the line
C15_FirstListedLabelWins ==
  Parsed =>
    \A n \in 1..Len(SplitLines(section1)) : \A f \in LabelledFields :
      With(SplitLines(section1)[n], LAMBDA line :
        Contended(line, LabelsOf(f), f)
          => extract_after_label(line, LabelsOf(f), f) = FirstOf(Alone(line, LabelsOf(f), f), None))

\* C15 witness: 'Supplier' comes first in the line and 'Manufacturer' first
\* in the list: the manufacturer is the one after 'Manufacturer'
C15_SecondInLineWins ==
  /\ pc = "done"
  /\ section1 = Join(<<Headers1[1][1], <<"S","u","p","p","l","i","e","r",":"," ","A","c","m","e"," ","M","a","n","u","f","a","c","t","u","r","e","r",":"," ","B","o","l","t"," ","I","n","c">>>>)
  /\ Contended(SplitLines(section1)[2], FL_manufacturer, "manufacturer")
  /\ Alone(SplitLines(section1)[2], FL_manufacturer, "manufacturer")[3] = <<"A","c","m","e"," ","M","a","n","u","f","a","c","t","u","r","e","r",":"," ","B","o","l","t"," ","I","n","c">>
  /\ result["manufacturer"] = Entry(<<"B","o","l","t"," ","I","n","c">>)

\* C16: dangerous_goods_class, subsidiary_risk and packing_group are derived
\* from the text of Section 14 only: they are what the text of the section
\* alone gives, and all three are null when get_section(text, 14) is empty
C16_OnlyFromSection14 ==
  Parsed =>
    /\ Value("dangerous_goods_class") = parse_dangerous_goods_class(section14, section14)
    /\ Value("subsidiary_risk") = parse_subsidiary_risk(section14, section14)
    /\ Value("packing_group") = parse_packing_group(section14, section14)
    /\ section14 = <<>> =>
         \A f \in {"dangerous_goods_class", "subsidiary_risk", "packing_group"} : Value(f) = None

\* the calendar date a string of the form YYYY-MM-DD denotes, or NoDate
IsoDate(v) ==
  IF FullMatch(Cat(<<Rep(Dig, 4, 4), Lit(<<"-">>), Rep(Dig, 2, 2), Lit(<<"-">>), Rep(Dig, 2, 2)>>), v, CS)
  THEN DateOf(IntOf(SubSeq(v, 1, 4)), IntOf(SubSeq(v, 6, 7)), IntOf(SubSeq(v, 9, 10)))
  ELSE NoDate

\* C17: every issue date extract_date returns is null or a string of the
\* form YYYY-MM-DD that denotes a calendar date not after today
C17_IsoDateOrNull ==
  Parsed =>
    \/ Value("issue_date") = None
    \/ IsoDate(Value("issue_date")) # NoDate /\ NotAfter(IsoDate(Value("issue_date")), today)

\* what the text layer of the document holds for the reader that finds most
Longest(d) == CHOOSE k \in 1..3 : \A j \in 1..3 : Len(Strip(PageText(d[k]))) >= Len(Strip(PageText(d[j])))

\* the text is too short to parse and no OCR pass supplies another
TooShort ==
  /\ Strip(text) # <<>> /\ Len(Strip(text)) < MIN_TEXT_LENGTH
  /\ Strip(PageText(pdf[4])) = <<>>

\* C18: a parse whose best text-layer text is non-empty but below the minimum
\* length, with no OCR text to replace it, ends in an error record and runs no
\* field extraction (the record holds no field)
C18_TooShortHalts ==
  pc \notin {"extract_text", "sections"} /\ TooShort =>
    /\ pc = "done"
    /\ "error" \in DOMAIN result
    /\ Fields \cap DOMAIN result = {}

\* C19: the text handed to the pipeline is as long, stripped, as the longest
\* text any of the text-layer backends extracts from the document
C19_LongestTextWins ==
  pc # "extract_text" =>
    Len(Strip(text)) >= Len(Strip(PageText(pdf[Longest(pdf)])))

\* the document as a reader that stops after max_pages pages sees it
FirstPages(d) == [k \in 1..4 |-> SubSeq(d[k], 1, IF Len(d[k]) < max_pages THEN Len(d[k]) ELSE max_pages)]

\* C20: the text of a parse is drawn from the first ten pages of the document
\* only, whichever backend or OCR pass supplies it
C20_TenPageCap ==
  pc # "extract_text" => text = extract_text_from_pdf(FirstPages(pdf))

\* the values written after 'label: ' on the lines of the text
After(label, t) ==
  {SubSeq(l, Len(label) + 3, Len(l)) :
     l \in {SplitLines(t)[n] : n \in {k \in 1..Len(SplitLines(t)) :
              Match(Cat(<<Lit(label), Lit(<<":"," ">>)>>), SplitLines(t)[k], CS)}}}

\* C21: a class that begins with 'Not subject to' and goes on, found after a
\* Section 14 label, is reported in full and unchanged as dangerous_goods_class,
\* and the packing group 'not assigned' is reported as written
C21_NotSubjectInFull ==
  Parsed =>
    /\ After(<<"D","G"," ","C","l","a","s","s">>, text) # {} => Value("dangerous_goods_class") \in After(<<"D","G"," ","C","l","a","s","s">>, text)
    /\ After(<<"P","a","c","k","i","n","g"," ","G","r","o","u","p">>, text) = {<<"n","o","t"," ","a","s","s","i","g","n","e","d">>} => Value("packing_group") = <<"n","o","t"," ","a","s","s","i","g","n","e","d">>

\* the packing groups
PackingGroups == {<<"I">>, <<"I","I">>, <<"I","I","I">>}

\* C27: when the one packing group written in Section 14 as 'Packing Group: X'
\* is I, II or III, parse_pdf reports it as packing_group
C27_EveryPackingGroup ==
  Parsed /\ Cardinality(After(<<"P","a","c","k","i","n","g"," ","G","r","o","u","p">>, section14)) = 1 /\ After(<<"P","a","c","k","i","n","g"," ","G","r","o","u","p">>, section14) \subseteq PackingGroups
    => {Value("packing_group")} = After(<<"P","a","c","k","i","n","g"," ","G","r","o","u","p">>, section14)

\* the text is one line, a label and after ': ' a date that begins with a
\* two-digit day or a four-digit year, read day first as a day not after today
OneLabelledDate ==
  /\ Len(SplitLines(text)) = 1 /\ Len(DATE_matches(text, 0)) = 1
  /\ Match(Alt(<<Cat(<<Rep(Dig, 2, 2), Set({"/", " "})>>), Cat(<<Rep(Dig, 4, 4), Lit(<<"-">>)>>)>>), ValueOf(text), CS)
  /\ dateutil_parse(ValueOf(text), today) # NoDate
  /\ NotAfter(dateutil_parse(ValueOf(text), today), today)

\* C23: for a text whose only date stands after a recognised label and begins
\* with a two-digit day or a four-digit year, and is not in the future, the
\* issue date is that calendar date in ISO form: no digit of it is taken into
\* the label
C23_WholeDateIsRead ==
  Parsed /\ OneLabelledDate => Value("issue_date") = strftime(dateutil_parse(ValueOf(text), today))

\* the labels in the order of priority the claim gives them; a label of no
\* such word ranks last
PriorityWords == <<<<"i","s","s","u","e">>, <<"p","r","e","p","a","r","e","d">>, <<"i","s","s","u","e","d">>, <<"c","r","e","a","t","i","o","n">>, <<"r","e","v","i","s","i","o","n">>, <<"v","e","r","s","i","o","n">>, <<"p","r","i","n","t">>>>
Rank(label) == FirstIn(1, Len(PriorityWords), LAMBDA k : AnyIn(<<PriorityWords[k]>>, label))

\* the labelled candidates of the text, each with the rank of its label and
\* its date in ISO form, None when it does not read as a day not after today
Reading(m) ==
  With(dateutil_parse(m.candidate, today), LAMBDA d :
    [rank |-> Rank(m.label),
     iso  |-> IF d # NoDate /\ NotAfter(d, today) THEN strftime(d) ELSE None])
Readings == With(DATE_matches(text, 0), LAMBDA ms : [k \in 1..Len(ms) |-> Reading(ms[k])])
ValidOnes(rs) == {k \in 1..Len(rs) : rs[k].iso # None}
High(r) == r.rank < Len(PriorityWords)

\* C24 as claimed: the valid candidate of the best rank is chosen, wherever it
\* stands in the text
C24_StrictPriority ==
  Parsed => With(Readings, LAMBDA rs :
    ValidOnes(rs) # {} =>
      \E k \in ValidOnes(rs) :
        /\ Value("issue_date") = rs[k].iso
        /\ \A j \in ValidOnes(rs) : rs[k].rank <= rs[j].rank)

\* C24: among the valid labelled candidates the first, in the order of the
\* text, whose label holds one of issue, prepared, issued, creation, revision,
\* version is chosen, and when there is none the first valid candidate
C24_FirstHighPriority ==
  Parsed => With(Readings, LAMBDA rs :
    ValidOnes(rs) # {} =>
      \E k \in ValidOnes(rs) :
        /\ Value("issue_date") = rs[k].iso
        /\ IF \E j \in ValidOnes(rs) : High(rs[j])
           THEN High(rs[k]) /\ \A j \in ValidOnes(rs) : j < k => ~High(rs[j])
           ELSE \A j \in ValidOnes(rs) : k <= j)

\* a print date stands before a revision date, both valid, and the revision
\* date is reported
C24_RevisionAfterPrint ==
  Parsed /\ With(Readings, LAMBDA rs :
    /\ ValidOnes(rs) = {1, 2}
    /\ ~High(rs[1]) /\ High(rs[2])
    /\ rs[1].iso # rs[2].iso /\ Value("issue_date") = rs[2].iso)

\* the text has a header line of Section 1 with the word 'identification',
\* and lines under it of which the first is no header of any kind
IdentificationWithBody ==
  /\ \E n \in 1..Len(SplitLines(text)) :
       /\ HeaderNumber(SplitLines(text)[n]) = 1
       /\ Contains(LowerStr(SplitLines(text)[n]), <<"i","d","e","n","t","i","f","i","c","a","t","i","o","n">>)
       /\ \A k \in 1..(n - 1) : HeaderNumber(SplitLines(text)[k]) # 1
  /\ Body(text, 1) # <<>>
  /\ Strip(Body(text, 1)[1]) # <<>> /\ ~FalseHeader(Body(text, 1)[1])

\* C22: when the text has a Section 1 header line with the word
\* 'identification' and body lines under it, get_section(text, 1) holds the
\* body and is never white space only, also when the header line is indented
\* or comes after blank lines
C22_IndentedHeader ==
  pc \notin {"extract_text", "sections"} /\ Truthy(text) /\ IdentificationWithBody
    => /\ Strip(section1) # <<>>
       /\ OneOf(Body(text, 1)[1], SplitLines(section1))

\* the non-empty lines after line i
Following(lines, i) == SelectSeq(SubSeq(lines, i + 1, Len(lines)), LAMBDA l : Strip(l) # <<>>)

\* line i is the first line with a manufacturer label, and the label is the
\* whole of it
LabelAlone(lines, i) ==
  /\ AnyFullMatch(FL_manufacturer, Strip(lines[i]), CI)
  /\ \A j \in 1..(i - 1) : ~HasLabel(lines[j])

\* C25: when the label stands alone on a line, the value is the first of the
\* next five non-empty lines that is neither a recognised label nor noise,
\* blank lines not counting: so also the fifth non-empty line after four
\* lines of noise
C25_FiveLinesScanned ==
  pc \notin {"extract_text", "sections"} /\ Truthy(text) =>
    \A i \in 1..Len(SplitLines(section1)) :
      LabelAlone(SplitLines(section1), i) =>
        With(Following(SplitLines(section1), i), LAMBDA fs :
          With(FirstIn(1, Len(fs), LAMBDA k : Plain(fs[k])), LAMBDA p :
            p <= Len(fs) /\ p <= 5 =>
              extract_after_label(section1, FL_manufacturer, "manufacturer") = Strip(fs[p])))

\* a contact-info marker after white space
ContactMarker == Cat(<<Sp, Alt(<<Lit(<<"T","e","l">>), Lit(<<"P","h","o","n","e">>), Lit(<<"F","a","x">>), Lit(<<"E","m","a","i","l">>), Lit(<<"A","d","d","r","e","s","s">>), Lit(<<"W","e","b","s","i","t","e">>), Lit(<<"C","o","n","t","a","c","t">>)>>), Lit(<<":">>)>>)

\* C26: no value extract_after_label returns holds a contact-info marker
\* after white space, whether the value stood on the line of the label or on
\* a following line
C26_NoContactMarker ==
  pc \notin {"extract_text", "sections"} /\ Truthy(text) =>
    \A f \in LabelledFields :
      With(extract_after_label(section1, LabelsOf(f), f), LAMBDA v :
        v = None \/ ~Search(ContactMarker, v, CI))

\* C28: transform_to_chemfetch_format sets dangerous_good and
\* hazardous_substance only when dangerous_goods_class is a numeric class, a
\* digit 1-9 with an optional subdivision: for every not-applicable phrase the
\* validator of the class accepts they are false
C28_DangerousOnlyIfNumeric ==
  Parsed =>
    With(transform_to_chemfetch_format(result, 1), LAMBDA r :
      r.dangerous_good \/ r.hazardous_substance =>
        FullMatch(Cat(<<Set({"1", "2", "3", "4", "5", "6", "7", "8", "9"}), Opt(Cat(<<Lit(<<".">>), Set(DigitSet)>>))>>), r.dangerous_goods_class, CS))

\* the fields the final validation sweeps
SweptFields == {"product_name", "manufacturer"}

\* the value is neither noise nor a bare product label
Clean(v) ==
  /\ ~is_noise_text(v)
  /\ ~FullMatch(Alt(<<Cat(<<Lit(<<"p","r","o","d","u","c","t">>), Plus(Sp), Lit(<<"i","d","e","n","t","i","f","i","e","r">>)>>), Cat(<<Lit(<<"p","r","o","d","u","c","t">>), Plus(Sp), Lit(<<"n","a","m","e">>)>>), Cat(<<Lit(<<"t","r","a","d","e">>), Plus(Sp), Lit(<<"n","a","m","e">>)>>), Cat(<<Lit(<<"c","o","m","m","e","r","c","i","a","l">>), Plus(Sp), Lit(<<"p","r","o","d","u","c","t">>), Plus(Sp), Lit(<<"n","a","m","e">>)>>)>>), Strip(v), CI)

\* C29: in every record parse_pdf returns, product_name and manufacturer are
\* null or neither noise, by sds_extractor.is_noise_text, nor a bare product
\* label, and product_name does not look like the header '1. Identification';
\* and the final sweep changes no field but these two
C29_SweepLeavesNoNoise ==
  /\ [](Parsed =>
         /\ \A f \in SweptFields : Value(f) = None \/ Clean(Value(f))
         /\ ~Match(Cat(<<Star(Sp), Plus(Dig), Opt(Lit(<<".">>)), Star(Sp), Alt(<<Lit(<<"i","d","e","n","t","i","f","i","c","a","t","i","o","n">>), Lit(<<"h","a","z","a","r","d">>)>>), WordB>>), Value("product_name"), CI))
  /\ [][pc = "final_validation" =>
         \A f \in DOMAIN result \ SweptFields : f \in DOMAIN result' /\ result'[f] = result[f]]_vars

\* the (1-based) positions of s that hold a letter like the character
\* immediately before it, the case apart
Repeats(s) ==
  {k \in 2..Len(s) : s[k] \in AlphaSet /\ Lower(s[k]) = Lower(s[k - 1])}

\* s without the characters at the positions of D
Without(s, D) ==
  With(SelectSeq(Indices(Len(s)), LAMBDA k : k \notin D), LAMBDA keep :
    [n \in 1..Len(keep) |-> s[keep[n]]])

\* C30: compress_duplicates_with_map(s) returns (t, m) of equal lengths, m
\* strictly increasing and t[i] equal to s[m[i]] the case apart; and t is s
\* without some of the letters that repeat the character immediately before
\* them, so that digits, white space and punctuation are kept and letters
\* apart by white space are not merged
C30_MapIsFaithful ==
  pc = "compressed" =>
    /\ Len(result.out) = Len(result.map)
    /\ \A i, j \in 1..Len(result.map) : i < j => result.map[i] < result.map[j]
    /\ \A i \in 1..Len(result.map) :
         /\ result.map[i] \in 0..(Len(text) - 1)
         /\ Lower(result.out[i]) = Lower(text[result.map[i] + 1])
    /\ \E D \in SUBSET Repeats(text) : result.out = Without(text, D)

====
